---- MODULE Spec2Model ----
(***************************************************************************)
(* Background job worker of the scraper (scraper/src/worker.py) and the    *)
(* tables it works on: background_jobs, llm_scores, post_scores_staging    *)
(* and the live ranking table post_scores.                                 *)
(*                                                                         *)
(* Every store call (a supabase ...execute()) is one atomic step of the    *)
(* worker that makes it; a call either takes effect or raises and leaves   *)
(* the store unchanged.  Code between two store calls is local to the      *)
(* worker and is folded into the step of the store call before it.         *)
(***************************************************************************)
EXTENDS Integers, Sequences, FiniteSets, TLC

(***************************************************************************)
(* Bounds of the model.                                                    *)
(***************************************************************************)
\* worker instances that may run the poll loop against the same store
NWorkers == 2
\* rows llm_scores holds when the model starts
MaxScores == 11
\* rows the scoring pipeline adds to llm_scores while the workers run
MaxAdded == 1
\* rows of llm_scores whose scores/categories may be malformed (ids 1..MaxInvalid)
MaxInvalid == 1
\* the dispatch counter kept for the properties saturates here
MaxAttempts == 3
\* a Python float is an IEEE-754 binary64 (53-bit significand, round to nearest,
\* ties to even); the model keeps the format with a significand of this many
\* bits (9 = 53 mod 4: the binary expansion of 1/5 has period 4)
MantissaBits == 9
\* posts that may lack the dimension a backfill job fills in
MaxMissing == 3
\* worker.py:37 BATCH_SIZE is 500; the model pages llm_scores in batches of
\* this many rows (more than one, so that a batch can overshoot the total)
BATCH_SIZE == 2
\* worker.py:44 BACKFILL_DIMENSION_BATCH_SIZE is 20; the model's page size
BACKFILL_DIMENSION_BATCH_SIZE == 2

(***************************************************************************)
(* Program constants.                                                      *)
(***************************************************************************)
CANCEL_CHECK_INTERVAL == 5
PROGRESS_UPDATE_INTERVAL == 5
\* _handle_transient_error: max_retries = 3 when the column is missing or falsy
DefaultMaxRetries == 3

Workers == 1..NWorkers
Posts == 1..(MaxScores + MaxAdded)

VARIABLES
    jobs,       \* background_jobs: job id -> row
    nScores,    \* llm_scores: rows 1..nScores in id order, row i scores post i
    added,      \* rows added to llm_scores since the start
    invalid,    \* ids of llm_scores rows that _process_batch skips as invalid
    staging,    \* post_scores_staging: set of <<job_id, post_id>>
    live,       \* post_scores rows written by a job's promote: <<job_id, post_id>>
    missing,    \* number of posts that lack the dimension being backfilled
    pc,         \* worker -> the store call the worker makes next
    loc,        \* worker -> local variables of the handler it is in
    hist,       \* job id -> what has happened to the job (read by properties only)
    call,       \* the call of the scoring pipeline under way: its name and arguments
    ret,        \* what that call has returned so far
    db          \* the tables the scoring pipeline writes

workerVars == <<jobs, nScores, added, invalid, staging, live, missing, pc, loc, hist>>

scorerVars == <<call, ret, db>>

vars == <<jobs, nScores, added, invalid, staging, live, missing, pc, loc, hist,
          call, ret, db>>

Min(a, b) == IF a < b THEN a ELSE b

Terminal == {"completed", "error", "cancelled"}

JobTypes == {"recompute_final_scores", "backfill_dimension", "fetch_permalink",
             "run_scraper"}

\* the --job-type filter of a worker (poll_and_process, job_types)
JobTypeFilter(w) == JobTypes

NoLoc == [job |-> 0, total |-> 0, offset |-> 0, processed |-> 0,
          batch_index |-> 0, rc |-> 0, mx |-> 0, page |-> 0, res |-> "none"]

\* attempts: dispatches of the job; applied: its promote has run; cleanup: how its
\* last staging delete ended; cancelHandled: the worker has handled its
\* cancellation; cancelledBetween: it was cancelled between two batches;
\* faulted: a store call made for it has raised; seen: the check of a
\* fetch_permalink job at which its status was cancelled; started: the external
\* call was started; cancelledRun: it was cancelled while the external script of
\* a run_scraper job ran; lastFail: "unwaited" from the write that resets the job
\* to pending for a retry until a worker has slept for the poll interval;
\* config: what the last load of the job's weight config found; cancelAt: when
\* a recompute job was cancelled with more than CANCEL_CHECK_INTERVAL batches
\* left, the number of batches staged by then and whether one was in progress
NoHist == [attempts |-> 0, applied |-> FALSE, cleanup |-> "none",
           cancelHandled |-> FALSE, cancelledBetween |-> FALSE, faulted |-> FALSE,
           seen |-> "no", started |-> FALSE, cancelledRun |-> FALSE,
           lastFail |-> "none", config |-> "none", cancelAt |-> {}]

\* a job row as its creator inserts it
NewJob(id, type, params, max_retries, total) ==
    [type |-> type, status |-> "pending", params |-> params, created_at |-> id,
     retry_count |-> 0, max_retries |-> max_retries, progress |-> 0,
     total |-> total, error_message |-> "none"]

SetJob(j, upd) == [jobs EXCEPT ![j] = upd @@ jobs[j]]

SetPc(w, p) == [pc EXCEPT ![w] = p]

\* the handler returns (or raises) to the poll loop: its locals are gone
Return(w, p) ==
    /\ pc' = SetPc(w, p)
    /\ loc' = [loc EXCEPT ![w] = NoLoc]

SetHist(j, upd) == [hist EXCEPT ![j] = upd @@ hist[j]]

(***************************************************************************)
(* poll_and_process: select the oldest pending job of the filter and       *)
(* dispatch it by type.  The handler's code up to its first store call     *)
(* (the checks of job.params) is part of this step.                        *)
(***************************************************************************)
PendingJobs(w) ==
    {j \in DOMAIN jobs : jobs[j].status = "pending" /\ jobs[j].type \in JobTypeFilter(w)}

Oldest(S) == CHOOSE j \in S : \A k \in S : jobs[j].created_at <= jobs[k].created_at

\* where the handler of job j stands after its parameter checks
FirstCall(j) ==
    LET t == jobs[j].type
        ok == jobs[j].params = "ok"
    IN  IF t = "recompute_final_scores" THEN (IF ok THEN "rc_mark" ELSE "sleep")
        ELSE IF t = "fetch_permalink" THEN (IF ok THEN "fp_mark" ELSE "fp_invalid")
        ELSE IF t = "run_scraper" THEN "rs_mark"
        ELSE (IF ok THEN "bf_mark" ELSE "bf_invalid")

Poll(w) ==
    /\ pc[w] = "poll"
    /\ IF PendingJobs(w) = {}
       THEN /\ pc' = SetPc(w, "sleep")
            /\ UNCHANGED <<loc, hist>>
       ELSE LET j == Oldest(PendingJobs(w)) IN
            /\ pc' = SetPc(w, FirstCall(j))
            /\ loc' = [loc EXCEPT ![w] = IF FirstCall(j) = "sleep" THEN NoLoc
                                          ELSE [NoLoc EXCEPT !.job = j]]
            /\ hist' = SetHist(j, [attempts |-> Min(hist[j].attempts + 1, MaxAttempts)])
    /\ UNCHANGED <<jobs, nScores, added, invalid, staging, live, missing>>
    /\ UNCHANGED scorerVars

\* time.sleep(poll_interval), then the next iteration of the loop
Sleep(w) ==
    /\ pc[w] = "sleep"
    /\ pc' = SetPc(w, "poll")
    /\ hist' = [j \in DOMAIN jobs |->
                  IF hist[j].lastFail = "unwaited"
                  THEN [lastFail |-> "waited"] @@ hist[j] ELSE hist[j]]
    /\ UNCHANGED <<jobs, nScores, added, invalid, staging, live, missing, loc>>
    /\ UNCHANGED scorerVars

\* the job a worker's call is made for: its history records the fault
Faulted(w) ==
    IF loc[w].job = 0 THEN hist ELSE SetHist(loc[w].job, [faulted |-> TRUE])

\* store calls made outside a handler's try block, or inside one of its except
\* clauses: when one raises, the exception reaches the except clause of the
\* poll loop, which logs and sleeps
RaisesToLoop(w) ==
    \/ pc[w] \in {"poll", "rc_mark", "rc_perm_update", "rc_trans_read",
                   "rc_trans_write", "rc_exh_update"}
    \/ pc[w] \in {"bf_invalid", "bf_mark", "bf_error"}
    \/ pc[w] \in {"fp_invalid", "fp_mark", "fp_check1"}
    \/ pc[w] \in {"fp_check2", "fp_write"} /\ loc[w].res \in {"timeout", "exception"}
    \/ pc[w] \in {"rs_mark", "rs_missing"}
    \/ pc[w] = "rs_write" /\ loc[w].res \in {"timeout", "exception"}

LoopException(w) ==
    /\ RaisesToLoop(w)
    /\ Return(w, "sleep")
    /\ hist' = Faulted(w)
    /\ UNCHANGED <<jobs, nScores, added, invalid, staging, live, missing>>
    /\ UNCHANGED scorerVars

(***************************************************************************)
(* process_recompute_job                                                   *)
(***************************************************************************)

\* mutant of LoopHead: the loop stops one batch early
LoopHeadOneBatchShort(offset, total, batch_index) ==
    IF offset + BATCH_SIZE < total
    THEN (IF batch_index % CANCEL_CHECK_INTERVAL = 0 THEN "rc_check" ELSE "rc_batch")
    ELSE "rc_apply"

\* the while condition and the cancellation throttle at the head of the loop
LoopHead(offset, total, batch_index) ==
    IF offset < total
    THEN (IF batch_index % CANCEL_CHECK_INTERVAL = 0 THEN "rc_check" ELSE "rc_batch")
    ELSE "rc_apply"

\* update({"started_at", "status": "running"}).eq("id", job_id)
RcMarkRunning(w) ==
    /\ pc[w] = "rc_mark"
    /\ jobs' = SetJob(loc[w].job, [status |-> "running"])
    /\ pc' = SetPc(w, "rc_load")
    /\ hist' = SetHist(loc[w].job, [lastFail |-> "none"])
    /\ UNCHANGED <<nScores, added, invalid, staging, live, missing, loc>>
    /\ UNCHANGED scorerVars

\* what the row of weight_configs may hold: weights on known dimensions (and
\* maybe others), no row, a weights value that is not a dict, a dict with no
\* numeric value, a dict whose numeric values are all on unknown dimensions
WeightConfigKinds == {"ok", "not_found", "not_dict", "no_numeric", "unknown_only"}

\* load_weight_config: ValueError when the row is missing, weights is no dict or
\* has no numeric value; after that check the unknown dimensions are dropped
\* and what is left is returned, also when nothing is left
LoadWeightConfig(kind) ==
    IF kind \in {"not_found", "not_dict", "no_numeric"} THEN "ValueError"
    ELSE IF kind = "unknown_only" THEN "empty"
    ELSE "weights"

\* _load_job_dependencies
RcLoad(w) ==
    /\ pc[w] = "rc_load"
    /\ \E kind \in WeightConfigKinds :
          /\ pc' = SetPc(w, IF LoadWeightConfig(kind) = "ValueError"
                            THEN "rc_perm_cleanup" ELSE "rc_count")
          /\ hist' = SetHist(loc[w].job, [config |-> kind])
    /\ UNCHANGED <<jobs, nScores, added, invalid, staging, live, missing, loc>>
    /\ UNCHANGED scorerVars

\* count of llm_scores, written to the job as its total
RcCount(w) ==
    /\ pc[w] = "rc_count"
    /\ jobs' = SetJob(loc[w].job, [total |-> nScores])
    /\ loc' = [loc EXCEPT ![w].total = nScores]
    /\ pc' = SetPc(w, LoopHead(0, nScores, 0))
    /\ UNCHANGED <<nScores, added, invalid, staging, live, missing, hist>>
    /\ UNCHANGED scorerVars

\* the status read of the cancellation check
RcCheck(w) ==
    /\ pc[w] = "rc_check"
    /\ pc' = SetPc(w, IF jobs[loc[w].job].status = "cancelled"
                      THEN "rc_cancel_cleanup" ELSE "rc_batch")
    /\ UNCHANGED <<jobs, nScores, added, invalid, staging, live, missing, loc, hist>>
    /\ UNCHANGED scorerVars

\* mutant of CleanupStaging: the delete matches no row of the job
CleanupStagingNoMatch(w, next) ==
    /\ staging' = staging
    /\ hist' = SetHist(loc[w].job, [cleanup |-> "deleted"])
    /\ pc' = SetPc(w, next)
    /\ UNCHANGED <<jobs, nScores, added, invalid, live, missing, loc>>
    /\ UNCHANGED scorerVars

\* mutant of DeleteStaging: the delete is not filtered by job
DeleteStagingOfAll(rows, j) == {}

\* table("post_scores_staging").delete().eq("job_id", job_id)
DeleteStaging(rows, j) == {r \in rows : r[1] # j}

\* _cleanup_staging: delete the job's staging rows; a failure of the delete is
\* logged and swallowed
CleanupStaging(w, next) ==
    LET j == loc[w].job IN
    /\ \E deleted \in BOOLEAN :
          IF deleted
          THEN /\ staging' = DeleteStaging(staging, j)
               /\ hist' = SetHist(j, [cleanup |-> "deleted"])
          ELSE /\ staging' = staging
               /\ hist' = SetHist(j, [cleanup |-> "failed", faulted |-> TRUE])
    /\ pc' = SetPc(w, next)
    /\ UNCHANGED <<jobs, nScores, added, invalid, live, missing, loc>>
    /\ UNCHANGED scorerVars

RcCancelCleanup(w) ==
    /\ pc[w] = "rc_cancel_cleanup"
    /\ CleanupStaging(w, "rc_cancel_update")

\* update({"completed_at", "progress": processed}); return
RcCancelUpdate(w) ==
    /\ pc[w] = "rc_cancel_update"
    /\ jobs' = SetJob(loc[w].job, [progress |-> loc[w].processed])
    /\ hist' = SetHist(loc[w].job, [cancelHandled |-> TRUE])
    /\ Return(w, "poll")
    /\ UNCHANGED <<nScores, added, invalid, staging, live, missing>>
    /\ UNCHANGED scorerVars

\* mutant of BatchRows: the range starts one row late
BatchRowsFromSecond(offset) ==
    {i \in Posts : offset + 1 < i /\ i <= offset + BATCH_SIZE /\ i <= nScores}

\* rows offset+1 .. offset+BATCH_SIZE of llm_scores in id order (range())
BatchRows(offset) == {i \in Posts : offset < i /\ i <= offset + BATCH_SIZE /\ i <= nScores}

\* _process_batch: one staging record per valid row
ProcessBatch(j, rows) == {<<j, i>> : i \in rows \ invalid}

\* after a batch: offset += BATCH_SIZE, batch_index += 1, back to the loop head
NextBatch(w, processed) ==
    /\ loc' = [loc EXCEPT ![w].offset = @ + BATCH_SIZE, ![w].batch_index = @ + 1,
                          ![w].processed = processed]
    /\ pc' = SetPc(w, LoopHead(loc[w].offset + BATCH_SIZE, loc[w].total,
                               loc[w].batch_index + 1))

\* fetch a batch, compute its records, upsert them into post_scores_staging
RcBatch(w) ==
    /\ pc[w] = "rc_batch"
    /\ LET rows == BatchRows(loc[w].offset)
           recs == ProcessBatch(loc[w].job, rows)
           processed == loc[w].processed + Cardinality(recs)
           is_last_batch == loc[w].offset + BATCH_SIZE >= loc[w].total
       IN  IF rows = {}
           THEN /\ pc' = SetPc(w, "rc_apply")
                /\ UNCHANGED <<staging, loc>>
           ELSE /\ staging' = staging \cup recs
                /\ IF recs # {} /\ (loc[w].batch_index % PROGRESS_UPDATE_INTERVAL = 0
                                    \/ is_last_batch)
                   THEN /\ loc' = [loc EXCEPT ![w].processed = processed]
                        /\ pc' = SetPc(w, "rc_progress")
                   ELSE NextBatch(w, processed)
    /\ UNCHANGED <<jobs, nScores, added, invalid, live, missing, hist>>
    /\ UNCHANGED scorerVars

\* _update_job_progress
RcProgress(w) ==
    /\ pc[w] = "rc_progress"
    /\ jobs' = SetJob(loc[w].job, [progress |-> loc[w].processed])
    /\ NextBatch(w, loc[w].processed)
    /\ UNCHANGED <<nScores, added, invalid, staging, live, missing, hist>>
    /\ UNCHANGED scorerVars

\* the stored procedure apply_post_scores_from_staging: in one transaction the
\* job's staging rows become rows of the live ranking table
ApplyPostScoresFromStaging(j) ==
    /\ live' = live \cup {r \in staging : r[1] = j}
    /\ staging' = {r \in staging : r[1] # j}

RcApply(w) ==
    /\ pc[w] = "rc_apply"
    /\ ApplyPostScoresFromStaging(loc[w].job)
    /\ hist' = SetHist(loc[w].job, [applied |-> TRUE])
    /\ pc' = SetPc(w, "rc_complete")
    /\ UNCHANGED <<jobs, nScores, added, invalid, missing, loc>>
    /\ UNCHANGED scorerVars

\* update({"completed_at", "progress": processed, "status": "completed"})
RcComplete(w) ==
    /\ pc[w] = "rc_complete"
    /\ jobs' = SetJob(loc[w].job, [status |-> "completed", progress |-> loc[w].processed])
    /\ Return(w, "poll")
    /\ UNCHANGED <<nScores, added, invalid, staging, live, missing, hist>>
    /\ UNCHANGED scorerVars

\* store calls inside the try block: when one raises anything but ValueError
\* the except clauses hand the job to _handle_transient_error
TryCalls ==
    {"rc_load", "rc_count", "rc_check", "rc_cancel_update", "rc_batch",
     "rc_progress", "rc_apply", "rc_complete"}

RcTransientError(w) ==
    /\ pc[w] \in TryCalls
    /\ pc' = SetPc(w, "rc_trans_read")
    /\ hist' = Faulted(w)
    /\ UNCHANGED <<jobs, nScores, added, invalid, staging, live, missing, loc>>
    /\ UNCHANGED scorerVars

\* except ValueError: _cleanup_staging, mark the job error, re-raise
RcPermCleanup(w) ==
    /\ pc[w] = "rc_perm_cleanup"
    /\ CleanupStaging(w, "rc_perm_update")

RcPermUpdate(w) ==
    /\ pc[w] = "rc_perm_update"
    /\ jobs' = SetJob(loc[w].job, [status |-> "error", error_message |-> "permanent"])
    /\ Return(w, "sleep")
    /\ UNCHANGED <<nScores, added, invalid, staging, live, missing, hist>>
    /\ UNCHANGED scorerVars

\* max_retries = job_data.get("max_retries", 3) or 3
EffectiveMaxRetries(m) == IF m = 0 THEN DefaultMaxRetries ELSE m

\* mutant of RetriesLeft: the bound is compared inclusively
RetriesLeftInclusive(rc, mx) == rc <= mx

\* if current_retry_count < max_retries: retry
RetriesLeft(rc, mx) == rc < mx

\* _handle_transient_error: select retry_count, max_retries
RcTransRead(w) ==
    /\ pc[w] = "rc_trans_read"
    /\ LET rc == jobs[loc[w].job].retry_count
           mx == EffectiveMaxRetries(jobs[loc[w].job].max_retries)
       IN  /\ loc' = [loc EXCEPT ![w].rc = rc, ![w].mx = mx]
           /\ pc' = SetPc(w, IF RetriesLeft(rc, mx) THEN "rc_trans_write"
                             ELSE "rc_exh_cleanup")
    /\ UNCHANGED <<jobs, nScores, added, invalid, staging, live, missing, hist>>
    /\ UNCHANGED scorerVars

\* update({"error_message", "last_retry_at", "retry_count": n + 1, "status": "pending"})
RcTransWrite(w) ==
    /\ pc[w] = "rc_trans_write"
    /\ jobs' = SetJob(loc[w].job, [status |-> "pending", retry_count |-> loc[w].rc + 1,
                                   error_message |-> "transient"])
    /\ hist' = SetHist(loc[w].job, [lastFail |-> "unwaited"])
    /\ Return(w, "poll")
    /\ UNCHANGED <<nScores, added, invalid, staging, live, missing>>
    /\ UNCHANGED scorerVars

RcExhCleanup(w) ==
    /\ pc[w] = "rc_exh_cleanup"
    /\ CleanupStaging(w, "rc_exh_update")

\* update({"completed_at", "error_message": "... (Failed after N retries)", "status": "error"})
RcExhUpdate(w) ==
    /\ pc[w] = "rc_exh_update"
    /\ jobs' = SetJob(loc[w].job, [status |-> "error", error_message |-> "exhausted"])
    /\ Return(w, "poll")
    /\ UNCHANGED <<nScores, added, invalid, staging, live, missing, hist>>
    /\ UNCHANGED scorerVars

(***************************************************************************)
(* The text of error_message in each status write.  A text is modelled by  *)
(* its length: str(e) has length n, an f-string adds the length of its     *)
(* literal parts, a slice msg[:k] keeps min(n, k) characters.              *)
(***************************************************************************)
MESSAGE_LIMIT == 1000

\* msg[:k]
Slice(n, k) == IF n < k THEN n ELSE k

\* len(str(m)) of a small non-negative integer
DecimalLength(m) == IF m < 10 THEN 1 ELSE IF m < 100 THEN 2 ELSE 3

ErrorPaths ==
    {"recompute_permanent", "recompute_retry_network", "recompute_retry",
     "recompute_exhausted_network", "recompute_exhausted",
     "backfill_params", "backfill_dimension", "backfill_exception",
     "permalink_params", "permalink_exit", "permalink_timeout", "permalink_exception",
     "scraper_missing", "scraper_exit", "scraper_timeout", "scraper_exception"}

\* the length of the stored error_message when the text the handler starts
\* from (str(e), or stderr or stdout of the script) has length n
ErrorMessage(path, n, max_retries) ==
    LET network == 22 + n       \* f"Network/system error: {str(e)}"
        unexpected == 18 + n    \* f"Unexpected error: {str(e)}"
        failed_after == 24 + DecimalLength(max_retries)
                                \* f" (Failed after {max_retries} retries)"
    IN  CASE path = "recompute_permanent" -> n
          [] path = "recompute_retry_network" -> network
          [] path = "recompute_retry" -> unexpected
          [] path = "recompute_exhausted_network" -> network + failed_after
          [] path = "recompute_exhausted" -> unexpected + failed_after
          [] path = "backfill_params" -> 14
          [] path = "backfill_dimension" -> Slice(158, MESSAGE_LIMIT)
          [] path = "backfill_exception" -> Slice(n, MESSAGE_LIMIT)
          [] path = "permalink_params" -> 29
          [] path = "permalink_exit" -> Slice(IF n = 0 THEN 21 ELSE n, MESSAGE_LIMIT)
          [] path = "permalink_timeout" -> 28
          [] path = "permalink_exception" -> Slice(n, MESSAGE_LIMIT)
          [] path = "scraper_missing" -> 31
          [] path = "scraper_exit" -> Slice(IF n = 0 THEN 27 ELSE n, MESSAGE_LIMIT)
          [] path = "scraper_timeout" -> 29
          [] path = "scraper_exception" -> Slice(n, MESSAGE_LIMIT)

(***************************************************************************)
(* process_backfill_dimension_job                                          *)
(***************************************************************************)
\* params is not a dict or names no known dimension: mark the job error, return
BfInvalid(w) ==
    /\ pc[w] = "bf_invalid"
    /\ jobs' = SetJob(loc[w].job, [status |-> "error", error_message |-> "invalid"])
    /\ Return(w, "poll")
    /\ UNCHANGED <<nScores, added, invalid, staging, live, missing, hist>>
    /\ UNCHANGED scorerVars

\* while True: the cancellation throttle at the head of the loop
BfLoopHead(batch_index) ==
    IF batch_index % CANCEL_CHECK_INTERVAL = 0 THEN "bf_check" ELSE "bf_fetch"

BfMarkRunning(w) ==
    /\ pc[w] = "bf_mark"
    /\ jobs' = SetJob(loc[w].job, [status |-> "running"])
    /\ pc' = SetPc(w, BfLoopHead(0))
    /\ UNCHANGED <<nScores, added, invalid, staging, live, missing, loc, hist>>
    /\ UNCHANGED scorerVars

BfCheck(w) ==
    /\ pc[w] = "bf_check"
    /\ pc' = SetPc(w, IF jobs[loc[w].job].status = "cancelled"
                      THEN "bf_cancel_update" ELSE "bf_fetch")
    /\ UNCHANGED <<jobs, nScores, added, invalid, staging, live, missing, loc, hist>>
    /\ UNCHANGED scorerVars

BfCancelUpdate(w) ==
    /\ pc[w] = "bf_cancel_update"
    /\ jobs' = SetJob(loc[w].job, [progress |-> loc[w].processed])
    /\ hist' = SetHist(loc[w].job, [cancelHandled |-> TRUE])
    /\ Return(w, "poll")
    /\ UNCHANGED <<nScores, added, invalid, staging, live, missing>>
    /\ UNCHANGED scorerVars

\* the stored procedure get_posts_missing_dimension(p_dimension, p_limit):
\* how many posts it returns
PostsMissingDimension(limit) == Min(missing, limit)

\* rpc get_posts_missing_dimension; no rows: leave the loop
BfFetch(w) ==
    /\ pc[w] = "bf_fetch"
    /\ LET n == PostsMissingDimension(BACKFILL_DIMENSION_BATCH_SIZE) IN
       /\ loc' = [loc EXCEPT ![w].page = n]
       /\ pc' = SetPc(w, IF n = 0 THEN "bf_complete" ELSE "bf_score")
    /\ UNCHANGED <<jobs, nScores, added, invalid, staging, live, missing, hist>>
    /\ UNCHANGED scorerVars

\* scorer.score_single_dimension: one (post_id, value) per post, or it raises
BfScore(w) ==
    /\ pc[w] = "bf_score"
    /\ pc' = SetPc(w, "bf_merge")
    /\ UNCHANGED <<jobs, nScores, added, invalid, staging, live, missing, loc, hist>>
    /\ UNCHANGED scorerVars

\* rpc merge_dimension_into_llm_scores: the posts of the page have the dimension
BfMerge(w) ==
    /\ pc[w] = "bf_merge"
    /\ missing' = missing - Min(missing, loc[w].page)
    /\ loc' = [loc EXCEPT ![w].processed = @ + loc[w].page]
    /\ pc' = SetPc(w, "bf_progress")
    /\ UNCHANGED <<jobs, nScores, added, invalid, staging, live, hist>>
    /\ UNCHANGED scorerVars

\* update({"progress": processed}); batch_index += 1
BfProgress(w) ==
    /\ pc[w] = "bf_progress"
    /\ jobs' = SetJob(loc[w].job, [progress |-> loc[w].processed])
    /\ loc' = [loc EXCEPT ![w].batch_index = @ + 1]
    /\ pc' = SetPc(w, BfLoopHead(loc[w].batch_index + 1))
    /\ UNCHANGED <<nScores, added, invalid, staging, live, missing, hist>>
    /\ UNCHANGED scorerVars

BfComplete(w) ==
    /\ pc[w] = "bf_complete"
    /\ jobs' = SetJob(loc[w].job, [status |-> "completed", progress |-> loc[w].processed])
    /\ Return(w, "poll")
    /\ UNCHANGED <<nScores, added, invalid, staging, live, missing, hist>>
    /\ UNCHANGED scorerVars

\* a call inside the try block raises: except Exception
BfTryCalls ==
    {"bf_check", "bf_cancel_update", "bf_fetch", "bf_score", "bf_merge",
     "bf_progress", "bf_complete"}

BfException(w) ==
    /\ pc[w] \in BfTryCalls
    /\ pc' = SetPc(w, "bf_error")
    /\ hist' = Faulted(w)
    /\ UNCHANGED <<jobs, nScores, added, invalid, staging, live, missing, loc>>
    /\ UNCHANGED scorerVars

\* except Exception: update({"completed_at", "error_message", "status": "error"})
BfError(w) ==
    /\ pc[w] = "bf_error"
    /\ jobs' = SetJob(loc[w].job, [status |-> "error", error_message |-> "exception"])
    /\ Return(w, "poll")
    /\ UNCHANGED <<nScores, added, invalid, staging, live, missing, hist>>
    /\ UNCHANGED scorerVars

(***************************************************************************)
(* process_fetch_permalink_job                                             *)
(***************************************************************************)
\* params is not a dict or has no url: mark the job error, return False
FpInvalid(w) ==
    /\ pc[w] = "fp_invalid"
    /\ jobs' = SetJob(loc[w].job, [status |-> "error", error_message |-> "invalid"])
    /\ Return(w, "poll")
    /\ UNCHANGED <<nScores, added, invalid, staging, live, missing, hist>>
    /\ UNCHANGED scorerVars

FpMarkRunning(w) ==
    /\ pc[w] = "fp_mark"
    /\ jobs' = SetJob(loc[w].job, [status |-> "running"])
    /\ pc' = SetPc(w, "fp_check1")
    /\ UNCHANGED <<nScores, added, invalid, staging, live, missing, loc, hist>>
    /\ UNCHANGED scorerVars

\* mutant of WasCancelled: the status is compared with a value it never has
WasCancelledNever(j) == jobs[j].status = "canceled"

\* _fetch_permalink_job_was_cancelled
WasCancelled(j) == jobs[j].status = "cancelled"

\* the check before the run; True is returned for a cancelled job and the
\* poll loop sleeps
FpCheckBefore(w) ==
    LET j == loc[w].job IN
    /\ pc[w] = "fp_check1"
    /\ hist' = IF jobs[j].status = "cancelled" THEN SetHist(j, [seen |-> "before"])
               ELSE hist
    /\ IF WasCancelled(j)
       THEN Return(w, "sleep")
       ELSE pc' = SetPc(w, "fp_run") /\ loc' = loc
    /\ UNCHANGED <<jobs, nScores, added, invalid, staging, live, missing>>
    /\ UNCHANGED scorerVars

\* subprocess.run(..., timeout=300): exit code 0, another exit code,
\* TimeoutExpired or another exception
FpRun(w) ==
    /\ pc[w] = "fp_run"
    /\ \E r \in {"ok", "nonzero", "timeout", "exception"} :
          loc' = [loc EXCEPT ![w].res = r]
    /\ hist' = SetHist(loc[w].job, [started |-> TRUE])
    /\ pc' = SetPc(w, "fp_check2")
    /\ UNCHANGED <<jobs, nScores, added, invalid, staging, live, missing>>
    /\ UNCHANGED scorerVars

\* the check after the run (in the try block or in an except clause)
FpCheckAfter(w) ==
    LET j == loc[w].job IN
    /\ pc[w] = "fp_check2"
    /\ hist' = IF jobs[j].status = "cancelled" THEN SetHist(j, [seen |-> "after"])
               ELSE hist
    /\ IF WasCancelled(j)
       THEN Return(w, "sleep")
       ELSE pc' = SetPc(w, "fp_write") /\ loc' = loc
    /\ UNCHANGED <<jobs, nScores, added, invalid, staging, live, missing>>
    /\ UNCHANGED scorerVars

\* the status written for the outcome of the run
FpOutcome(res) == IF res = "ok" THEN "completed" ELSE "error"

FpWrite(w) ==
    /\ pc[w] = "fp_write"
    /\ jobs' = SetJob(loc[w].job, [status |-> FpOutcome(loc[w].res),
                                   error_message |-> IF loc[w].res = "ok"
                                                     THEN jobs[loc[w].job].error_message
                                                     ELSE loc[w].res])
    /\ Return(w, "poll")
    /\ UNCHANGED <<nScores, added, invalid, staging, live, missing, hist>>
    /\ UNCHANGED scorerVars

\* a store call after the run raises inside the try block: except Exception
FpTryException(w) ==
    /\ pc[w] \in {"fp_check2", "fp_write"}
    /\ loc[w].res \in {"ok", "nonzero"}
    /\ loc' = [loc EXCEPT ![w].res = "exception"]
    /\ pc' = SetPc(w, "fp_check2")
    /\ hist' = Faulted(w)
    /\ UNCHANGED <<jobs, nScores, added, invalid, staging, live, missing>>
    /\ UNCHANGED scorerVars

(***************************************************************************)
(* process_run_scraper_job                                                 *)
(***************************************************************************)
\* params are not validated (feed_type falls back to "recent"); mark the job
\* running, then look for scripts/run-scrape.sh
RsMarkRunning(w) ==
    /\ pc[w] = "rs_mark"
    /\ jobs' = SetJob(loc[w].job, [status |-> "running"])
    /\ \E is_file \in BOOLEAN : pc' = SetPc(w, IF is_file THEN "rs_run" ELSE "rs_missing")
    /\ UNCHANGED <<nScores, added, invalid, staging, live, missing, loc, hist>>
    /\ UNCHANGED scorerVars

\* the script is not there: mark the job error, return
RsScriptMissing(w) ==
    /\ pc[w] = "rs_missing"
    /\ jobs' = SetJob(loc[w].job, [status |-> "error", error_message |-> "missing"])
    /\ Return(w, "poll")
    /\ UNCHANGED <<nScores, added, invalid, staging, live, missing, hist>>
    /\ UNCHANGED scorerVars

\* subprocess.run([script, feed_type], timeout=7200) ends: exit code 0, another
\* exit code, TimeoutExpired or another exception
RsRun(w) ==
    /\ pc[w] = "rs_run"
    /\ \E r \in {"ok", "nonzero", "timeout", "exception"} :
          loc' = [loc EXCEPT ![w].res = r]
    /\ hist' = SetHist(loc[w].job, [started |-> TRUE])
    /\ pc' = SetPc(w, "rs_write")
    /\ UNCHANGED <<jobs, nScores, added, invalid, staging, live, missing>>
    /\ UNCHANGED scorerVars

\* the status written for the outcome of the script, without reading the job
RsWrite(w) ==
    /\ pc[w] = "rs_write"
    /\ jobs' = SetJob(loc[w].job, [status |-> FpOutcome(loc[w].res),
                                   error_message |-> IF loc[w].res = "ok"
                                                     THEN jobs[loc[w].job].error_message
                                                     ELSE loc[w].res])
    /\ Return(w, "poll")
    /\ UNCHANGED <<nScores, added, invalid, staging, live, missing, hist>>
    /\ UNCHANGED scorerVars

\* the write after the script raises inside the try block: except Exception
RsTryException(w) ==
    /\ pc[w] = "rs_write"
    /\ loc[w].res \in {"ok", "nonzero"}
    /\ loc' = [loc EXCEPT ![w].res = "exception"]
    /\ hist' = Faulted(w)
    /\ UNCHANGED <<jobs, nScores, added, invalid, staging, live, missing, pc>>
    /\ UNCHANGED scorerVars

(***************************************************************************)
(* The other writers of the store.                                         *)
(***************************************************************************)
\* the external script of run_scraper job j is running
ScriptRunning(j) == \E w \in Workers : loc[w].job = j /\ pc[w] = "rs_run"

\* a worker has staged a batch of job j and has not yet fetched the next one
BetweenBatches(j) ==
    \E w \in Workers : /\ loc[w].job = j
                        /\ pc[w] \in {"rc_check", "rc_batch"}
                        /\ loc[w].batch_index >= 1

\* the batches worker w has staged in its loop, and those it has yet to stage
BatchesStaged(w) == loc[w].batch_index + (IF pc[w] = "rc_progress" THEN 1 ELSE 0)

BatchesLeft(w) ==
    (loc[w].total + BATCH_SIZE - 1) \div BATCH_SIZE - BatchesStaged(w)

\* the workers in the batch loop of job j with more than CANCEL_CHECK_INTERVAL
\* batches left
EarlyInLoop(j) ==
    {w \in Workers : /\ loc[w].job = j
                     /\ pc[w] \in {"rc_check", "rc_batch", "rc_progress"}
                     /\ jobs[j].status = "running"
                     /\ BatchesLeft(w) > CANCEL_CHECK_INTERVAL}

\* what the history of job j records about a cancellation
Cancelled(j) ==
    [cancelledBetween |-> hist[j].cancelledBetween \/ BetweenBatches(j),
     cancelledRun |-> hist[j].cancelledRun \/ (~BetweenBatches(j) /\ ScriptRunning(j)),
     cancelAt |-> IF EarlyInLoop(j) = {} THEN hist[j].cancelAt
                  ELSE LET w == CHOOSE w \in EarlyInLoop(j) : TRUE
                       IN  {[staged |-> BatchesStaged(w),
                             in_progress |-> pc[w] = "rc_batch"]}]

\* a user cancels a queued or running job
Cancel(j) ==
    /\ jobs[j].status \in {"pending", "running"}
    /\ jobs' = SetJob(j, [status |-> "cancelled"])
    /\ hist' = SetHist(j, Cancelled(j))
    /\ UNCHANGED <<nScores, added, invalid, staging, live, missing, pc, loc>>
    /\ UNCHANGED scorerVars

\* the scoring pipeline saves the scores of a newly scored post
AddScoreRow ==
    /\ added < MaxAdded
    /\ nScores' = nScores + 1
    /\ added' = added + 1
    /\ UNCHANGED <<jobs, invalid, staging, live, missing, pc, loc, hist>>
    /\ UNCHANGED scorerVars

(***************************************************************************)
(* Python float arithmetic on values >= 0.  A float is [m, e] with value    *)
(* m * 2^e, m = 0 or 2^(MantissaBits-1) <= m < 2^MantissaBits; every         *)
(* operation rounds its exact result to the nearest float, ties to even.    *)
(***************************************************************************)
Pow2(k) == 2^k

BitLength(n) == CHOOSE k \in 1..30 : Pow2(k - 1) <= n /\ n < Pow2(k)

\* the float nearest to n * 2^e, for an integer n >= 0
RoundToFloat(n, e) ==
    IF n = 0 THEN [m |-> 0, e |-> 0]
    ELSE LET k == BitLength(n) IN
         IF k <= MantissaBits
         THEN [m |-> n * Pow2(MantissaBits - k), e |-> e - (MantissaBits - k)]
         ELSE LET s == k - MantissaBits
                  q == n \div Pow2(s)
                  r == n % Pow2(s)
                  half == Pow2(s - 1)
                  q2 == IF r > half \/ (r = half /\ q % 2 = 1) THEN q + 1 ELSE q
              IN  IF q2 = Pow2(MantissaBits)
                  THEN [m |-> Pow2(MantissaBits - 1), e |-> e + s + 1]
                  ELSE [m |-> q2, e |-> e + s]

\* float(n) for an int n
FromInt(n) == RoundToFloat(n, 0)

\* the integer x / 2^e, for e no larger than the exponent of x
Scaled(x, e) == x.m * Pow2(x.e - e)

FAdd(x, y) ==
    LET e == Min(x.e, y.e) IN RoundToFloat(Scaled(x, e) + Scaled(y, e), e)

\* x - y for x >= y
FSub(x, y) ==
    LET e == Min(x.e, y.e) IN RoundToFloat(Scaled(x, e) - Scaled(y, e), e)

FMul(x, y) == RoundToFloat(x.m * y.m, x.e + y.e)

\* x / y for y > 0: the quotient to MantissaBits + 2 bits and a sticky bit
FDiv(x, y) ==
    LET num == x.m * Pow2(MantissaBits + 2)
        q == num \div y.m
        sticky == IF num % y.m = 0 THEN 0 ELSE 1
    IN  RoundToFloat(2 * q + sticky, x.e - y.e - (MantissaBits + 2) - 1)

\* x <= y
FLe(x, y) ==
    LET e == Min(x.e, y.e) IN Scaled(x, e) <= Scaled(y, e)

FMin(x, y) == IF FLe(x, y) THEN x ELSE y

FMax(x, y) == IF FLe(x, y) THEN y ELSE x

\* the float of a decimal literal n/d, such as 0.2 or 1.5
Literal(n, d) == FDiv(FromInt(n), FromInt(d))

(***************************************************************************)
(* novelty.py                                                              *)
(***************************************************************************)
COLD_START_THRESHOLD == 30

\* config.get(key, default)
Get(config, key, default) == IF key \in DOMAIN config THEN config[key] ELSE default

\* sum(frequencies.get(cat, 0) for cat in categories)
RECURSIVE TotalFreq(_, _)
TotalFreq(categories, frequencies) ==
    IF categories = << >> THEN 0
    ELSE Get(frequencies, Head(categories), 0) + TotalFreq(Tail(categories), frequencies)

\* mutant of ColdStart: the count is never looked at
ColdStartNever(total_scored_count) == FALSE

\* total_scored_count is not None and total_scored_count < COLD_START_THRESHOLD
ColdStart(total_scored_count) ==
    \E n \in total_scored_count : n < COLD_START_THRESHOLD

\* total_scored_count is {} for None and {n} for the int n
calculate_novelty(categories, frequencies, config, total_scored_count) ==
    IF categories = << >> THEN FromInt(1)
    ELSE IF DOMAIN frequencies = {} THEN FromInt(1)
    ELSE IF ColdStart(total_scored_count)
    THEN FromInt(1)
    ELSE
    LET min_mult == Get(config, "min_multiplier", Literal(2, 10))
        max_mult == Get(config, "max_multiplier", Literal(15, 10))
        thresholds == Get(config, "frequency_thresholds", << >>)
        rare_threshold == Get(thresholds, "rare", 5)
        common_threshold == Get(thresholds, "common", 30)
        very_common_threshold == Get(thresholds, "very_common", 100)
        total_freq == TotalFreq(categories, frequencies)
        avg_freq == FDiv(FromInt(total_freq), FromInt(Len(categories)))
    IN  IF FLe(avg_freq, FromInt(rare_threshold)) THEN max_mult
        ELSE IF FLe(avg_freq, FromInt(common_threshold))
        THEN LET divisor == common_threshold - rare_threshold IN
             IF divisor <= 0 THEN FromInt(1)
             ELSE LET ratio == FDiv(FSub(avg_freq, FromInt(rare_threshold)),
                                    FromInt(divisor))
                  IN  FSub(max_mult, FMul(ratio, FSub(max_mult, FromInt(1))))
        ELSE IF FLe(avg_freq, FromInt(very_common_threshold))
        THEN LET divisor == very_common_threshold - common_threshold IN
             IF divisor <= 0 THEN min_mult
             ELSE LET ratio == FDiv(FSub(avg_freq, FromInt(common_threshold)),
                                    FromInt(divisor))
                  IN  FSub(FromInt(1), FMul(ratio, FSub(FromInt(1), min_mult)))
        ELSE min_mult

(***************************************************************************)
(* Final scores: calculate_final_score of the worker and the arithmetic of *)
(* LLMScorer.calculate_final_scores.  scores and weights are dicts from    *)
(* dimension names to floats.                                              *)
(***************************************************************************)
\* llm_prompts.py lists seven dimensions; the model keeps three of them
SCORING_DIMENSIONS == <<"absurdity", "drama", "podcast_worthy">>

DimensionSet == {SCORING_DIMENSIONS[i] : i \in DOMAIN SCORING_DIMENSIONS}

\* the dimensions of dims that are keys of the dict d, in the order of dims
RECURSIVE KeysIn(_, _)
KeysIn(dims, d) ==
    IF dims = << >> THEN << >>
    ELSE IF Head(dims) \in DOMAIN d THEN <<Head(dims)>> \o KeysIn(Tail(dims), d)
    ELSE KeysIn(Tail(dims), d)

\* sum(term[dim] for dim in dims), added up from the left starting at acc
RECURSIVE FSum(_, _, _)
FSum(acc, dims, term) ==
    IF dims = << >> THEN acc
    ELSE FSum(FAdd(acc, term[Head(dims)]), Tail(dims), term)

\* mutant of Clamp: the raw score is returned as it is
ClampNone(raw_score) == raw_score

\* min(10.0, max(0.0, raw_score))
Clamp(raw_score) == FMin(FromInt(10), FMax(FromInt(0), raw_score))

\* worker.py calculate_final_score: the sums run over the keys of weights
calculate_final_score(scores, weights, novelty) ==
    LET dims == KeysIn(SCORING_DIMENSIONS, weights)
        weighted_sum ==
            FSum(FromInt(0), dims,
                 [d \in DOMAIN weights |-> FMul(Get(scores, d, FromInt(5)), weights[d])])
        max_possible ==
            FSum(FromInt(0), dims,
                 [d \in DOMAIN weights |-> FMul(FromInt(10), weights[d])])
    IN  IF max_possible = FromInt(0) THEN FromInt(0)
        ELSE LET normalized == FMul(FDiv(weighted_sum, max_possible), FromInt(10))
             IN  Clamp(FMul(normalized, novelty))

\* llm_scorer.py calculate_final_scores, lines 667-686, for one result: the sums
\* run over SCORING_DIMENSIONS, a dimension without a weight weighs 1.0
ScorerFinalScore(scores, weights, novelty) ==
    LET dimset == {SCORING_DIMENSIONS[i] : i \in DOMAIN SCORING_DIMENSIONS}
        weighted_sum ==
            FSum(FromInt(0), SCORING_DIMENSIONS,
                 [d \in dimset |-> FMul(Get(scores, d, FromInt(5)),
                                        Get(weights, d, FromInt(1)))])
        max_possible ==
            FSum(FromInt(0), SCORING_DIMENSIONS,
                 [d \in dimset |-> FMul(FromInt(10), Get(weights, d, FromInt(1)))])
        normalized == FMul(FDiv(weighted_sum, max_possible), FromInt(10))
    IN  Clamp(FMul(normalized, novelty))

(***************************************************************************)
(* llm_scorer.py: results, ensemble aggregation, _score_batch              *)
(***************************************************************************)
ENSEMBLE_RUNS == 3

\* llm_prompts.BATCH_SIZE (5 in the source), the posts of one _score_batch call
LLM_BATCH_SIZE == 2

\* the longest list of posts given to score_posts
MaxPosts == 3

\* the most calls of save_scores on one list of results
MaxSaves == 1

\* the most batches of one score_single_dimension call
MaxDimBatches == 2

\* the count of the model requests made for one batch saturates here
MaxRequests == 10

\* llm_prompts.py TOPIC_CATEGORIES, in the order of the names
TOPIC_CATEGORIES ==
    <<"crime", "drama", "humor", "local_news", "lost_pet", "noise", "suspicious",
      "wildlife">>

\* a PostScore; error is "" for None, final_score is {} for None and {x} for
\* the float x, scores is << >> for the empty dict (summary, why_podcast_worthy
\* and raw_response are left out)
PostScore(post_id, scores, categories, error) ==
    [post_id |-> post_id, scores |-> scores, categories |-> categories,
     error |-> error, final_score |-> {}]

\* PostScore(post_id=..., scores={}, categories=[], summary="", error=error)
ErrorResult(post_id, error) == PostScore(post_id, << >>, << >>, error)

\* the sequence s with the float x put in before the first larger element
RECURSIVE Insert(_, _)
Insert(x, s) ==
    IF s = << >> THEN <<x>>
    ELSE IF FLe(x, Head(s)) THEN <<x>> \o s
    ELSE <<Head(s)>> \o Insert(x, Tail(s))

\* sorted(values)
RECURSIVE Sorted(_)
Sorted(values) ==
    IF values = << >> THEN << >> ELSE Insert(Head(values), Sorted(Tail(values)))

\* statistics.median: the middle value, the mean of the two middle values
\* when their number is even
Median(values) ==
    LET s == Sorted(values)
        n == Len(s)
    IN  IF n % 2 = 1 THEN s[(n + 1) \div 2]
        ELSE FDiv(FAdd(s[n \div 2], s[n \div 2 + 1]), FromInt(2))

\* [r.scores.get(dim, 5.0) for r in valid_runs if r.scores.get(dim) is a number]
RECURSIVE DimValues(_, _)
DimValues(valid_runs, dim) ==
    IF valid_runs = << >> THEN << >>
    ELSE (IF dim \in DOMAIN Head(valid_runs).scores
          THEN <<Head(valid_runs).scores[dim]>> ELSE << >>)
         \o DimValues(Tail(valid_runs), dim)

\* how many times category c is listed by the runs
RECURSIVE Votes(_, _)
Votes(valid_runs, c) ==
    IF valid_runs = << >> THEN 0
    ELSE Cardinality({i \in DOMAIN Head(valid_runs).categories :
                        Head(valid_runs).categories[i] = c})
         + Votes(Tail(valid_runs), c)

\* position of a category in TOPIC_CATEGORIES (the order of the names)
CategoryIndex(c) == CHOOSE i \in DOMAIN TOPIC_CATEGORIES : TOPIC_CATEGORIES[i] = c

\* sorted(cat_counts.items(), key=(-count, name))[:3], names only
RECURSIVE TopCategories(_, _, _)
TopCategories(valid_runs, candidates, n) ==
    IF n = 0 \/ candidates = {} THEN << >>
    ELSE LET best == CHOOSE c \in candidates : \A d \in candidates :
                        \/ Votes(valid_runs, c) > Votes(valid_runs, d)
                        \/ /\ Votes(valid_runs, c) = Votes(valid_runs, d)
                           /\ CategoryIndex(c) <= CategoryIndex(d)
         IN  <<best>> \o TopCategories(valid_runs, candidates \ {best}, n - 1)

IsValidRun(r) == r.error = "" /\ r.scores # << >>

\* _aggregate_ensemble_results for the post at post_idx
AggregatePost(run_results, post_idx) ==
    LET runs_for_post == [k \in DOMAIN run_results |-> run_results[k][post_idx]]
        post_id == run_results[1][post_idx].post_id
        valid_runs == SelectSeq(runs_for_post, IsValidRun)
    IN  IF valid_runs = << >>
        THEN ErrorResult(post_id, IF runs_for_post[1].error # ""
                                  THEN runs_for_post[1].error ELSE "No valid runs")
        ELSE LET aggregated_scores ==
                     [dim \in DimensionSet |->
                         LET values == DimValues(valid_runs, dim) IN
                         IF values # << >>
                         THEN FMin(FromInt(10), FMax(FromInt(1), Median(values)))
                         ELSE FromInt(5)]
                 voted == {c \in {TOPIC_CATEGORIES[i] : i \in DOMAIN TOPIC_CATEGORIES} :
                              Votes(valid_runs, c) > 0}
             IN  PostScore(post_id, aggregated_scores,
                           TopCategories(valid_runs, voted, 3), "")

_aggregate_ensemble_results(run_results) ==
    IF run_results = << >> THEN << >>
    ELSE [post_idx \in DOMAIN run_results[1] |-> AggregatePost(run_results, post_idx)]

\* an ensemble run is [ok |-> TRUE, results |-> one PostScore per post] or
\* [ok |-> FALSE, message |-> str(e)] for the exception e it raised
RunSucceeded(run) == run.ok

\* str(last_error): the message of the last run that raised
LastError(runs) ==
    LET failed == {k \in DOMAIN runs : ~runs[k].ok}
        last == CHOOSE k \in failed : \A l \in failed : l <= k
    IN  runs[last].message

\* _score_batch, given what each of its ENSEMBLE_RUNS runs does
_score_batch(posts, runs) ==
    IF Len(posts) = 1 /\ posts[1].text = ""
    THEN <<ErrorResult(posts[1].id, "Empty post text")>>
    ELSE LET successful == SelectSeq(runs, RunSucceeded)
             successful_runs == [k \in DOMAIN successful |-> successful[k].results]
         IN  IF successful_runs = << >>
             THEN [i \in DOMAIN posts |-> ErrorResult(posts[i].id, LastError(runs))]
             ELSE _aggregate_ensemble_results(successful_runs)

\* A response text is a sequence of tokens: "fence_json" and "fence" are the
\* code-fence markers with and without the json tag, "L" is a JSON list with an item for every post, "N" a JSON value
\* that is not a list, "x" text that is not JSON.

\* if text.endswith(fence): text = text[:-3]
StripEnd(text) ==
    IF text # << >> /\ text[Len(text)] = "fence"
    THEN SubSeq(text, 1, Len(text) - 1) ELSE text

\* mutant of _strip_json_from_markdown: the text as it is
StripNothing(text) == text

_strip_json_from_markdown(text) ==
    IF text = << >> THEN << >>
    ELSE IF Head(text) \in {"fence_json", "fence"} THEN StripEnd(Tail(text))
    ELSE text

\* json.loads(text) succeeds: the text is one JSON value
Parses(text) == text \in {<<"L">>, <<"N">>}

\* the for loop over (raw_response, _strip_json_from_markdown(raw_response)):
\* the text that parsed, as a set, and the text of the last JSONDecodeError
TextsToParse(raw_response) ==
    SelectSeq(<<raw_response, _strip_json_from_markdown(raw_response)>>,
              LAMBDA t : t # << >>)

ParsedText(raw_response) ==
    LET texts == TextsToParse(raw_response)
        ok == {k \in DOMAIN texts : Parses(texts[k])}
    IN  IF ok = {} THEN {} ELSE {texts[CHOOSE k \in ok : \A l \in ok : k <= l]}

\* str(err): err is the last JSONDecodeError, or JSONDecodeError("Invalid
\* JSON", raw_response, 0) when no text was parsed
ParseErrorText(raw_response) ==
    LET texts == TextsToParse(raw_response)
    IN  IF texts = << >> THEN [error |-> "Invalid JSON", doc |-> raw_response]
        ELSE [error |-> "JSONDecodeError", doc |-> texts[Len(texts)]]

\* max_attempts of _score_batch_single_run and _score_single_dimension_batch
max_attempts == 3

\* stop_after_attempt(3) of the @retry decorators
stop_after_attempt == 3

\* Values of the parsed JSON response are records tagged with their Python
\* type: [t |-> "int", i |-> n], [t |-> "float", f |-> x], [t |-> "bool",
\* b |-> TRUE], [t |-> "str", s |-> "7"], [t |-> "null"] (None) and
\* [t |-> "object", o |-> dict].

\* isinstance(s, (int, float)); bool is a subclass of int
IsNumber(s) == s.t \in {"int", "float", "bool"}

\* float(s) of a number; True is 1 and False is 0
ToFloat(s) ==
    IF s.t = "float" THEN s.f
    ELSE IF s.t = "int" THEN FromInt(s.i)
    ELSE IF s.b THEN FromInt(1) ELSE FromInt(0)

\* float(s) if isinstance(s, (int, float)) and 1 <= s <= 10 else 5.0, where
\* scores.get(dim) is None for a missing dimension
ValidatedScore(scores, dim) ==
    IF /\ dim \in DOMAIN scores
       /\ IsNumber(scores[dim])
       /\ FLe(FromInt(1), ToFloat(scores[dim]))
       /\ FLe(ToFloat(scores[dim]), FromInt(10))
    THEN ToFloat(scores[dim])
    ELSE FromInt(5)

\* [c for c in raw_cats if c in TOPIC_CATEGORIES]
InVocabulary(c) == \E i \in DOMAIN TOPIC_CATEGORIES : TOPIC_CATEGORIES[i] = c

\* the validation of one item of the response in _score_batch_single_run (and
\* of the response in _score_single_post): scores.get raises AttributeError
\* when the value of "scores" is not a dict
ValidateItem(item) ==
    IF item.scores.t # "object"
    THEN [raised |-> TRUE, error |-> "AttributeError"]
    ELSE [raised |-> FALSE,
          scores |-> [dim \in DimensionSet |-> ValidatedScore(item.scores.o, dim)],
          categories |-> SelectSeq(item.categories, InVocabulary)]

\* _get_weights when the settings row is missing: the default weights (of the
\* dimensions of SCORING_DIMENSIONS kept here)
DefaultWeights ==
    [absurdity |-> FromInt(2), drama |-> Literal(15, 10), podcast_worthy |-> FromInt(2)]

\* _get_novelty_config when the settings row is missing
DefaultNoveltyConfig ==
    [frequency_thresholds |-> [common |-> 30, rare |-> 5, very_common |-> 100],
     max_multiplier |-> Literal(15, 10),
     min_multiplier |-> Literal(2, 10),
     window_days |-> 30]

\* calculate_final_scores: if result.error or not result.scores: continue
SkipsFinalScore(result) == result.error # "" \/ result.scores = << >>

\* calculate_final_scores, given what _get_weights, _get_topic_frequencies,
\* _get_novelty_config and _get_scored_count return
calculate_final_scores(results, weights, frequencies, config, total_scored_count) ==
    [i \in DOMAIN results |->
        IF SkipsFinalScore(results[i]) THEN results[i]
        ELSE [results[i] EXCEPT !.final_score =
                {ScorerFinalScore(results[i].scores, weights,
                                  calculate_novelty(results[i].categories, frequencies,
                                                    config, total_scored_count))}]]

(***************************************************************************)
(* The tables of the scoring pipeline                                      *)
(***************************************************************************)
EmptyDb == [llm_scores |-> {}, post_scores |-> {}, topic_frequencies |-> << >>]

\* str(e) of the tenacity.RetryError that the @retry decorator of _score_batch
\* raises once an exception has left _score_batch stop_after_attempt(3) times
RetryErrorText == "RetryError[<Future state=finished raised Exception>]"

\* one pass of the loop of score_posts: the results of batch, where outcome
\* says whether _score_batch raised and otherwise what its ensemble runs did
ScorePostsBatch(batch, outcome) ==
    IF outcome.raised
    THEN [i \in DOMAIN batch |-> ErrorResult(batch[i].id, RetryErrorText)]
    ELSE _score_batch(batch, outcome.runs)

\* mutant of SkipsSave: no result is skipped
SkipsNoSave(result) == FALSE

\* save_scores: if result.error: stats["skipped"] += 1; continue
SkipsSave(result) == result.error # ""

\* the row of llm_scores that save_scores builds from a result
ScoreRow(result) ==
    [post_id |-> result.post_id, scores |-> result.scores,
     categories |-> result.categories, final_score |-> result.final_score]

\* upsert(rows, on_conflict="post_id") on a table whose key is post_id
Upsert(table, rows) ==
    {r \in table : \A n \in rows : n.post_id # r.post_id} \cup rows

\* _update_topic_frequencies: if result.error: continue
CountsTopics(result) == result.error = ""

\* _update_topic_frequencies: category_counts of the results
CategoryCounts(results) ==
    LET counted == SelectSeq(results, CountsTopics)
        listed == {c \in {TOPIC_CATEGORIES[i] : i \in DOMAIN TOPIC_CATEGORIES} :
                      Votes(counted, c) > 0}
    IN  [c \in listed |-> Votes(counted, c)]

\* topic_frequencies after count_30d of the categories in updated has been
\* raised by their counts (by the batch RPC, the per-category RPC or the
\* read-then-upsert fallback)
Increment(frequencies, category_counts, updated) ==
    [c \in DOMAIN frequencies \cup updated |->
        (IF c \in DOMAIN frequencies THEN frequencies[c] ELSE 0)
        + (IF c \in updated THEN category_counts[c] ELSE 0)]

(***************************************************************************)
(* Specifications                                                          *)
(***************************************************************************)
InitWorkers ==
    /\ pc = [w \in Workers |-> "poll"]
    /\ loc = [w \in Workers |-> NoLoc]
    /\ hist = [j \in DOMAIN jobs |-> NoHist]

\* the job configurations the queue is started with
JobConfigs == [type : JobTypes, params : {"ok", "bad"}, max_retries : {1, 2}]

\* one job in the queue, of any type, with valid or invalid params.  The
\* worker never writes the total of a backfill job: its creator is taken to have
\* set it to the number of posts to backfill.  A recompute job's total is
\* written by the worker.
InitJobs ==
    \E c \in JobConfigs, m \in 0..MaxMissing :
        /\ missing = IF c.type = "backfill_dimension" THEN m ELSE 0
        /\ jobs = [j \in {1} |-> NewJob(j, c.type, c.params, c.max_retries, missing)]

HasType(t) == \E j \in DOMAIN jobs : jobs[j].type = t

\* llm_scores is read by recompute jobs only
InitStore ==
    /\ IF HasType("recompute_final_scores")
       THEN nScores \in 0..MaxScores /\ invalid \in SUBSET (1..MaxInvalid)
       ELSE nScores = 0 /\ invalid = {}
    /\ added = 0
    /\ staging = {}
    /\ live = {}

RecomputeStep(w) ==
    \/ RcMarkRunning(w) \/ RcLoad(w) \/ RcCount(w) \/ RcCheck(w)
    \/ RcCancelCleanup(w) \/ RcCancelUpdate(w)
    \/ RcBatch(w) \/ RcProgress(w) \/ RcApply(w) \/ RcComplete(w)
    \/ RcTransientError(w)
    \/ RcPermCleanup(w) \/ RcPermUpdate(w)
    \/ RcTransRead(w) \/ RcTransWrite(w) \/ RcExhCleanup(w) \/ RcExhUpdate(w)

BackfillStep(w) ==
    \/ BfInvalid(w) \/ BfMarkRunning(w) \/ BfCheck(w) \/ BfCancelUpdate(w)
    \/ BfFetch(w) \/ BfScore(w) \/ BfMerge(w) \/ BfProgress(w) \/ BfComplete(w)
    \/ BfException(w) \/ BfError(w)

PermalinkStep(w) ==
    \/ FpInvalid(w) \/ FpMarkRunning(w) \/ FpCheckBefore(w) \/ FpRun(w)
    \/ FpCheckAfter(w) \/ FpWrite(w) \/ FpTryException(w)

ScraperStep(w) ==
    \/ RsMarkRunning(w) \/ RsScriptMissing(w) \/ RsRun(w) \/ RsWrite(w)
    \/ RsTryException(w)

WorkerStep(w) ==
    \/ Poll(w) \/ Sleep(w) \/ LoopException(w)
    \/ RecomputeStep(w) \/ BackfillStep(w) \/ PermalinkStep(w) \/ ScraperStep(w)

\* no call of the scoring pipeline is under way
ScorerIdle ==
    /\ call = [fn |-> "none"]
    /\ ret = [done |-> FALSE]
    /\ db = EmptyDb

\* one worker instance
Init ==
    /\ InitJobs
    /\ InitStore
    /\ InitWorkers
    /\ ScorerIdle

Next ==
    \/ WorkerStep(1)
    \/ \E j \in DOMAIN jobs : Cancel(j)
    \/ AddScoreRow

Spec == Init /\ [][Next]_vars

\* several worker instances race for one recompute job over a short table
InitTwoWorkers ==
    /\ \E m \in {1, 2} : jobs = [j \in {1} |-> NewJob(j, "recompute_final_scores", "ok", m, 0)]
    /\ nScores \in 0..BATCH_SIZE
    /\ invalid = {}
    /\ missing = 0
    /\ added = 0
    /\ staging = {}
    /\ live = {}
    /\ InitWorkers
    /\ ScorerIdle

NextTwoWorkers ==
    \/ \E w \in Workers : Poll(w) \/ Sleep(w) \/ LoopException(w) \/ RecomputeStep(w)
    \/ \E j \in DOMAIN jobs : Cancel(j)

SpecTwoWorkers == InitTwoWorkers /\ [][NextTwoWorkers]_vars

\* two recompute jobs (of two weight configs) are pending while several
\* worker instances poll
InitTwoJobs ==
    /\ jobs = [j \in {1, 2} |-> NewJob(j, "recompute_final_scores", "ok", 1, 0)]
    /\ nScores = BATCH_SIZE
    /\ invalid = {}
    /\ missing = 0
    /\ added = 0
    /\ staging = {}
    /\ live = {}
    /\ InitWorkers
    /\ ScorerIdle

\* a worker polls while no worker holds the oldest pending job: the jobs that
\* run at the same time are different jobs (SpecTwoWorkers has the workers
\* that take the same job)
PollUnheld(w) ==
    /\ PendingJobs(w) # {} => \A v \in Workers : loc[v].job # Oldest(PendingJobs(w))
    /\ Poll(w)

\* the worker instances run, and the older job can be cancelled
NextTwoJobs ==
    \/ \E w \in Workers : PollUnheld(w) \/ Sleep(w) \/ RecomputeStep(w)
    \/ Cancel(1)

SpecTwoJobs == InitTwoJobs /\ [][NextTwoJobs]_vars

\* one worker instance and a queue of two jobs of any types; the older job may
\* have invalid params
InitQueue ==
    /\ \E t1 \in JobTypes, t2 \in JobTypes, p \in {"ok", "bad"} :
          jobs = <<NewJob(1, t1, p, 1, 1), NewJob(2, t2, "ok", 1, 1)>>
    /\ missing = IF HasType("backfill_dimension") THEN 1 ELSE 0
    /\ nScores = IF HasType("recompute_final_scores") THEN 1 ELSE 0
    /\ invalid = {}
    /\ added = 0
    /\ staging = {}
    /\ live = {}
    /\ InitWorkers
    /\ ScorerIdle

NextQueue ==
    \/ WorkerStep(1)
    \/ \E j \in DOMAIN jobs : Cancel(j)

SpecQueue == InitQueue /\ [][NextQueue]_vars

\* one worker instance and one recompute job whose max_retries may be 0
InitRetries ==
    /\ \E m \in {0} \cup {c.max_retries : c \in JobConfigs} :
          jobs = [j \in {1} |-> NewJob(j, "recompute_final_scores", "ok", m, 0)]
    /\ nScores \in 0..BATCH_SIZE
    /\ invalid = {}
    /\ missing = 0
    /\ added = 0
    /\ staging = {}
    /\ live = {}
    /\ InitWorkers
    /\ ScorerIdle

NextRetries ==
    \/ Poll(1) \/ Sleep(1) \/ LoopException(1) \/ RecomputeStep(1)
    \/ Cancel(1)

SpecRetries == InitRetries /\ [][NextRetries]_vars

\* one worker instance and a queue of two recompute jobs; the older job may
\* have invalid params
InitFairQueue ==
    /\ \E p \in {"ok", "bad"} :
          jobs = <<NewJob(1, "recompute_final_scores", p, 1, 0),
                   NewJob(2, "recompute_final_scores", "ok", 1, 0)>>
    /\ nScores = 1
    /\ invalid = {}
    /\ missing = 0
    /\ added = 0
    /\ staging = {}
    /\ live = {}
    /\ InitWorkers
    /\ ScorerIdle

NextFairQueue ==
    \/ Poll(1) \/ Sleep(1) \/ RecomputeStep(1)
    \/ Cancel(2)

\* the single-threaded loop always takes its next step
SpecFairQueue ==
    /\ InitFairQueue
    /\ [][NextFairQueue]_vars
    /\ WF_vars(Poll(1) \/ Sleep(1) \/ RecomputeStep(1))

\* the worker is not running: the pure functions are called on their own
WorkerIdle ==
    /\ jobs = << >>
    /\ nScores = 0
    /\ added = 0
    /\ invalid = {}
    /\ staging = {}
    /\ live = {}
    /\ missing = 0
    /\ pc = [w \in Workers |-> "poll"]
    /\ loc = [w \in Workers |-> NoLoc]
    /\ hist = << >>

\* all dicts from a set of keys chosen from keys to values
Dicts(keys, values) == UNION {[S -> values] : S \in SUBSET keys}


\* the arguments of the final-score functions: dimension scores in [1, 10],
\* weights > 0, a novelty multiplier of the default range
FinalScoreCalls ==
    [fn : {"final_score"},
     scores : Dicts(DimensionSet, {FromInt(1), FromInt(5), FromInt(10)}),
     weights : Dicts(DimensionSet, {FromInt(1), FromInt(2)}),
     novelty : {Literal(2, 10), FromInt(1), Literal(15, 10)}]

\* novelty configs with min_multiplier <= 1.0 <= max_multiplier and ascending
\* thresholds; << >> is the config without keys (every default applies)
NoveltyConfigs ==
    {<< >>} \cup
    [min_multiplier : {Literal(2, 10), Literal(5, 10)},
     max_multiplier : {Literal(15, 10), FromInt(2)},
     frequency_thresholds : {[rare |-> 5, common |-> 30, very_common |-> 100],
                             [rare |-> 1, common |-> 3, very_common |-> 5]}]

NoveltyCalls ==
    [fn : {"novelty"},
     categories : {<< >>, <<"crime">>, <<"humor">>, <<"crime", "humor">>,
                   <<"crime", "humor", "noise">>},
     frequencies : Dicts({"crime", "humor"}, {0, 1, 3, 5, 30, 100, 101}),
     config : NoveltyConfigs,
     total_scored_count : {{}, {COLD_START_THRESHOLD - 1}, {COLD_START_THRESHOLD}}]

\* what one ensemble run of _score_batch does for a batch of one post: it
\* raises (an exception whose str() is empty, or one with a message), or
\* _score_batch_single_run returns validated scores in [1, 10] and categories
RunOutcomes ==
    [ok : {FALSE}, message : {"", "API error"}] \cup
    {[ok |-> TRUE,
      results |-> <<PostScore(1, [absurdity |-> FromInt(a), drama |-> FromInt(d),
                                  podcast_worthy |-> FromInt(5)], cats, "")>>] :
        a \in {3, 5, 7}, d \in {3, 7},
        cats \in {<< >>, <<"crime">>, <<"humor", "crime">>, <<"crime", "crime">>,
                  <<"wildlife", "noise", "humor", "drama">>}}

ScoreBatchCalls ==
    [fn : {"score_batch"},
     posts : {<<[id |-> 1, text |-> t]>> : t \in {"", "text"}},
     runs : [1..ENSEMBLE_RUNS -> RunOutcomes]]

\* the values a response can give for a dimension
JsonScores ==
    {[t |-> "null"]} \cup [t : {"bool"}, b : BOOLEAN]
    \cup [t : {"int"}, i : {0, 1, 7, 10, 11}]
    \cup [t : {"float"}, f : {Literal(1, 2), Literal(15, 2), Literal(21, 2)}]
    \cup [t : {"str"}, s : {"7"}]

\* items of a response: "scores" is null or a dict that gives some of the
\* dimensions a value, "categories" a list of strings
ValidateCalls ==
    [fn : {"validate"},
     item : [scores : {[t |-> "null"]}
                      \cup [t : {"object"}, o : Dicts(DimensionSet, JsonScores)],
             categories : {<< >>, <<"crime">>, <<"aliens">>,
                           <<"aliens", "crime", "ufo", "noise">>,
                           <<"wildlife", "noise", "humor", "drama">>}]]

\* the writes of error_message, by handler and except clause, with the length
\* of the text the message is built from and the job's max_retries
ErrorMessageCalls ==
    [fn : {"error_message"}, path : ErrorPaths,
     n : {0, 1, MESSAGE_LIMIT - 1, MESSAGE_LIMIT, MESSAGE_LIMIT + 1},
     max_retries : {c.max_retries : c \in JobConfigs} \cup {DefaultMaxRetries}]

InitPure ==
    /\ WorkerIdle
    /\ call \in FinalScoreCalls \cup NoveltyCalls \cup ScoreBatchCalls \cup ValidateCalls
                \cup ErrorMessageCalls
    /\ ret = [done |-> FALSE]
    /\ db = EmptyDb

CallFinalScore ==
    /\ call.fn = "final_score"
    /\ ~ret.done
    /\ ret' = [done |-> TRUE,
               worker |-> calculate_final_score(call.scores, call.weights, call.novelty),
               scorer |-> ScorerFinalScore(call.scores, call.weights, call.novelty)]
    /\ UNCHANGED <<call, db>>
    /\ UNCHANGED workerVars

CallNovelty ==
    /\ call.fn = "novelty"
    /\ ~ret.done
    /\ ret' = [done |-> TRUE,
               value |-> calculate_novelty(call.categories, call.frequencies,
                                           call.config, call.total_scored_count)]
    /\ UNCHANGED <<call, db>>
    /\ UNCHANGED workerVars

\* _score_batch on a batch, then calculate_final_scores on its results
CallScoreBatch ==
    /\ call.fn = "score_batch"
    /\ ~ret.done
    /\ LET results == _score_batch(call.posts, call.runs)
       IN  ret' = [done |-> TRUE,
                   results |-> results,
                   final |-> calculate_final_scores(results, DefaultWeights, << >>,
                                                    DefaultNoveltyConfig, {})]
    /\ UNCHANGED <<call, db>>
    /\ UNCHANGED workerVars

CallValidate ==
    /\ call.fn = "validate"
    /\ ~ret.done
    /\ ret' = [done |-> TRUE] @@ ValidateItem(call.item)
    /\ UNCHANGED <<call, db>>
    /\ UNCHANGED workerVars

CallErrorMessage ==
    /\ call.fn = "error_message"
    /\ ~ret.done
    /\ ret' = [done |-> TRUE,
               length |-> ErrorMessage(call.path, call.n, call.max_retries)]
    /\ UNCHANGED <<call, db>>
    /\ UNCHANGED workerVars

NextPure ==
    CallFinalScore \/ CallNovelty \/ CallScoreBatch \/ CallValidate \/ CallErrorMessage

SpecPure == InitPure /\ [][NextPure]_vars

(***************************************************************************)
(* The scoring pipeline: score_posts on a list of posts, then any sequence *)
(* of calculate_final_scores and save_scores on its results.  ret holds    *)
(* the results list (the PostScore objects are shared by the calls), the   *)
(* position i of the loop of score_posts, what _score_batch returned for   *)
(* each batch, and the number of save_scores calls.                        *)
(***************************************************************************)
PostLists ==
    {[k \in DOMAIN t |-> [id |-> k, text |-> t[k]]] :
        t \in UNION {[1..m -> {"", "text"}] : m \in 0..MaxPosts}}

InitPipeline ==
    /\ WorkerIdle
    /\ call \in [fn : {"pipeline"}, posts : PostLists]
    /\ ret = [done |-> FALSE, results |-> << >>, i |-> 0, batches |-> << >>,
              saves |-> 0, stats |-> [errors |-> 0, saved |-> 0, skipped |-> 0]]
    /\ db = EmptyDb

\* what the ensemble runs of _score_batch can do for a batch: each run raises
\* or returns validated scores and categories for every post of the batch
BatchRunOutcomes(batch) ==
    [ok : {FALSE}, message : {"", "API error"}] \cup
    {[ok |-> TRUE,
      results |-> [i \in DOMAIN batch |->
                      PostScore(batch[i].id,
                                [absurdity |-> FromInt(7), drama |-> FromInt(3),
                                 podcast_worthy |-> FromInt(5)], cats, "")]] :
        cats \in {<< >>, <<"crime">>}}

\* _score_batch raises, or its first run does one thing and the runs after
\* it another (SpecPure lets every run of a batch differ)
BatchOutcomes(batch) ==
    {[raised |-> TRUE]} \cup
    {[raised |-> FALSE, runs |-> [k \in 1..ENSEMBLE_RUNS |-> IF k = 1 THEN r1 ELSE r2]] :
        r1 \in BatchRunOutcomes(batch), r2 \in BatchRunOutcomes(batch)}

\* _score_batch raised, or none of its ensemble runs succeeded
BatchFailed(outcome) ==
    outcome.raised \/ \A k \in DOMAIN outcome.runs : ~outcome.runs[k].ok

\* one pass of the loop of score_posts
ScoreNextBatch ==
    /\ call.fn = "pipeline"
    /\ ~ret.done
    /\ ret.i < Len(call.posts)
    /\ LET last == Min(ret.i + LLM_BATCH_SIZE, Len(call.posts))
           batch == SubSeq(call.posts, ret.i + 1, last)
       IN  \E outcome \in BatchOutcomes(batch) :
             LET batch_results == ScorePostsBatch(batch, outcome) IN
             ret' = [ret EXCEPT
                       !.results = @ \o batch_results,
                       !.i = ret.i + LLM_BATCH_SIZE,
                       !.batches = Append(@, [first |-> ret.i + 1, last |-> last,
                                              failed |-> BatchFailed(outcome),
                                              returned |-> batch_results])]
    /\ UNCHANGED <<call, db>>
    /\ UNCHANGED workerVars

\* score_posts returns its results
ScorePostsReturn ==
    /\ call.fn = "pipeline"
    /\ ~ret.done
    /\ ret.i >= Len(call.posts)
    /\ ret' = [ret EXCEPT !.done = TRUE]
    /\ UNCHANGED <<call, db>>
    /\ UNCHANGED workerVars

\* calculate_final_scores(results); _get_topic_frequencies gives {} and
\* _get_scored_count gives None when their query fails
CalculateFinalScores ==
    /\ call.fn = "pipeline"
    /\ ret.done
    /\ \E freq_ok \in BOOLEAN, count_ok \in BOOLEAN :
         ret' = [ret EXCEPT !.results =
                   calculate_final_scores(
                       @, DefaultWeights,
                       IF freq_ok THEN db.topic_frequencies ELSE << >>,
                       DefaultNoveltyConfig,
                       IF count_ok THEN {Cardinality(db.llm_scores)} ELSE {})]
    /\ UNCHANGED <<call, db>>
    /\ UNCHANGED workerVars

\* save_scores(results): the upsert of llm_scores, _update_topic_frequencies on
\* all the results, calculate_final_scores on the saved results, the upsert of
\* post_scores for the active weight config
\* mutant of SaveStats: a failed upsert still counts its rows as saved
SaveStatsCountsFailed(skipped, rows, upsert_ok) ==
    [skipped |-> skipped,
     saved |-> rows,
     errors |-> IF rows > 0 /\ ~upsert_ok THEN rows ELSE 0]

\* the counts save_scores returns: skipped from the loop over the results,
\* saved or errors = len(all_rows) from the one batch upsert
SaveStats(skipped, rows, upsert_ok) ==
    [skipped |-> skipped,
     saved |-> IF rows > 0 /\ upsert_ok THEN rows ELSE 0,
     errors |-> IF rows > 0 /\ ~upsert_ok THEN rows ELSE 0]

SaveScores ==
    /\ call.fn = "pipeline"
    /\ ret.done
    /\ ret.saves < MaxSaves
    /\ \E upsert_ok \in BOOLEAN, freq_ok \in BOOLEAN, count_ok \in BOOLEAN,
          active_config_id \in {{}, {"config"}} :
       \E post_scores_ok \in IF active_config_id = {} THEN {FALSE} ELSE BOOLEAN :
       LET results == ret.results
           kept == {k \in DOMAIN results : ~SkipsSave(results[k])}
           all_rows == {ScoreRow(results[k]) : k \in kept}
           saved == IF all_rows # {} /\ ~upsert_ok THEN {} ELSE kept
           llm_scores == IF all_rows # {} /\ upsert_ok
                         THEN Upsert(db.llm_scores, all_rows) ELSE db.llm_scores
           category_counts == CategoryCounts(results)
       IN  \E updated \in SUBSET DOMAIN category_counts :
             LET topic_frequencies ==
                     Increment(db.topic_frequencies, category_counts, updated)
                 rescored ==
                     calculate_final_scores(
                         results, DefaultWeights,
                         IF freq_ok THEN topic_frequencies ELSE << >>,
                         DefaultNoveltyConfig,
                         IF count_ok THEN {Cardinality(llm_scores)} ELSE {})
                 after == [k \in DOMAIN results |->
                              IF k \in saved THEN rescored[k] ELSE results[k]]
                 post_scores_data ==
                     {[post_id |-> after[k].post_id, weight_config_id |-> "config",
                       final_score |-> after[k].final_score] : k \in saved}
             IN  /\ db' = [llm_scores |-> llm_scores,
                           topic_frequencies |-> topic_frequencies,
                           post_scores |->
                               IF active_config_id # {} /\ saved # {} /\ post_scores_ok
                               THEN Upsert(db.post_scores, post_scores_data)
                               ELSE db.post_scores]
                 /\ ret' = [ret EXCEPT
                              !.results = after,
                              !.saves = @ + 1,
                              !.stats = SaveStats(Len(results) - Cardinality(kept),
                                                  Cardinality(all_rows), upsert_ok)]
    /\ UNCHANGED call
    /\ UNCHANGED workerVars

NextPipeline ==
    ScoreNextBatch \/ ScorePostsReturn \/ CalculateFinalScores \/ SaveScores

SpecPipeline == InitPipeline /\ [][NextPipeline]_vars

\* two scoring pipelines run _update_topic_frequencies at the same time, each
\* with results that list one and the same category; the category has a row
MaxCount == 2
MaxIncrement == 2
Pipelines == {1, 2}

InitFrequencies ==
    /\ \E initial \in 0..MaxCount, counts \in [Pipelines -> 1..MaxIncrement] :
         /\ call = [fn |-> "update_topic_frequencies",
                    initial |-> initial, counts |-> counts]
         /\ db = [EmptyDb EXCEPT !.topic_frequencies = [c \in {"crime"} |-> initial]]
    /\ ret = [at |-> [p \in Pipelines |-> "batch"],
              current |-> [p \in Pipelines |-> 0],
              path |-> [p \in Pipelines |-> "none"]]
    /\ WorkerIdle

\* category_counts of pipeline p
CountsOf(p) == [c \in {"crime"} |-> call.counts[p]]

\* rpc("increment_topic_frequencies_batch"): the store adds the increments in
\* one statement, or the call raises and the per-category loop starts
IncrementBatch(p) ==
    /\ call.fn = "update_topic_frequencies"
    /\ ret.at[p] = "batch"
    /\ \E ok \in BOOLEAN :
         IF ok
         THEN /\ db' = [db EXCEPT !.topic_frequencies =
                                    Increment(@, CountsOf(p), {"crime"})]
              /\ ret' = [ret EXCEPT !.at[p] = "done", !.path[p] = "batch"]
         ELSE /\ ret' = [ret EXCEPT !.at[p] = "rpc"]
              /\ UNCHANGED db
    /\ UNCHANGED call
    /\ UNCHANGED workerVars

\* rpc("increment_topic_frequency") for the category, or the call raises and
\* the fallback starts
IncrementCategory(p) ==
    /\ call.fn = "update_topic_frequencies"
    /\ ret.at[p] = "rpc"
    /\ \E ok \in BOOLEAN :
         IF ok
         THEN /\ db' = [db EXCEPT !.topic_frequencies =
                                    Increment(@, CountsOf(p), {"crime"})]
              /\ ret' = [ret EXCEPT !.at[p] = "done", !.path[p] = "rpc"]
         ELSE /\ ret' = [ret EXCEPT !.at[p] = "read"]
              /\ UNCHANGED db
    /\ UNCHANGED call
    /\ UNCHANGED workerVars

\* the fallback's select of count_30d: current = the stored count, or the
\* query raises and the category is given up
SelectCount(p) ==
    /\ call.fn = "update_topic_frequencies"
    /\ ret.at[p] = "read"
    /\ \E ok \in BOOLEAN :
         ret' = IF ok
                THEN [ret EXCEPT !.at[p] = "write",
                                 !.current[p] = db.topic_frequencies["crime"]]
                ELSE [ret EXCEPT !.at[p] = "done", !.path[p] = "failed"]
    /\ UNCHANGED <<call, db>>
    /\ UNCHANGED workerVars

\* the fallback's upsert of count_30d = current + count, or the upsert raises
UpsertCount(p) ==
    /\ call.fn = "update_topic_frequencies"
    /\ ret.at[p] = "write"
    /\ \E ok \in BOOLEAN :
         IF ok
         THEN /\ db' = [db EXCEPT !.topic_frequencies["crime"] =
                                    ret.current[p] + call.counts[p]]
              /\ ret' = [ret EXCEPT !.at[p] = "done", !.path[p] = "fallback"]
         ELSE /\ ret' = [ret EXCEPT !.at[p] = "done", !.path[p] = "failed"]
              /\ UNCHANGED db
    /\ UNCHANGED call
    /\ UNCHANGED workerVars

NextFrequencies ==
    \E p \in Pipelines :
        IncrementBatch(p) \/ IncrementCategory(p) \/ SelectCount(p) \/ UpsertCount(p)

SpecFrequencies == InitFrequencies /\ [][NextFrequencies]_vars

(***************************************************************************)
(* Properties                                                              *)
(***************************************************************************)
Staged(j) == {r \in staging : r[1] = j}

Promoted(j) == {r \in live : r[1] = j}

InHandler(w) == pc[w] \notin {"poll", "sleep"}

HandledBy(j) == {w \in Workers : InHandler(w) /\ loc[w].job = j}

IsRecompute(j) == jobs[j].type = "recompute_final_scores"

\* C2: at the write that ends _handle_transient_error, a job with
\* retry_count = max_retries - 1 becomes pending with retry_count = max_retries,
\* a job with retry_count = max_retries (>= 1) becomes error, and a job that is
\* error never becomes pending.
C2_RetryBoundary ==
    [][\A j \in DOMAIN jobs :
          /\ \A w \in Workers :
                (/\ pc[w] \in {"rc_trans_write", "rc_exh_update"}
                 /\ loc[w].job = j
                 /\ pc'[w] = "poll"
                 /\ jobs[j].max_retries >= 1)
                => /\ (jobs[j].retry_count = jobs[j].max_retries - 1)
                        => (/\ jobs'[j].status = "pending"
                            /\ jobs'[j].retry_count = jobs[j].max_retries)
                   /\ (jobs[j].retry_count = jobs[j].max_retries)
                        => (/\ jobs'[j].status = "error"
                            /\ jobs'[j].retry_count = jobs[j].max_retries)
          /\ (jobs[j].status = "error" => jobs'[j].status # "pending")]_vars

\* C2 witness: a job was retried up to max_retries and then marked error
C2_Witness ==
    \E j \in DOMAIN jobs :
        /\ IsRecompute(j)
        /\ jobs[j].status = "error"
        /\ jobs[j].error_message = "exhausted"
        /\ jobs[j].max_retries >= 2
        /\ jobs[j].retry_count = jobs[j].max_retries
        /\ hist[j].attempts = jobs[j].max_retries + 1

\* C3 (as claimed): once a recompute job with invalid params has been
\* dispatched it is marked error with retry_count 0 and is not selected again.
C3_InvalidParamsMarkedError ==
    \A j \in DOMAIN jobs :
        (/\ IsRecompute(j)
         /\ jobs[j].params = "bad"
         /\ hist[j].attempts >= 1
         /\ jobs[j].status # "cancelled")
        => /\ jobs[j].status = "error"
           /\ jobs[j].retry_count = 0
           /\ hist[j].attempts = 1

\* C4 (as claimed): a recompute job cancelled between two batches ends, once
\* the worker has left its handler, with no staged row and no live row of its
\* own (stated for the runs in which no store call raised).
C4_CancelBetweenBatchesLeavesNothing ==
    \A j \in DOMAIN jobs :
        (/\ IsRecompute(j)
         /\ hist[j].cancelledBetween
         /\ ~hist[j].faulted
         /\ HandledBy(j) = {})
        => (Staged(j) = {} /\ Promoted(j) = {})

\* C5: no live row of a job exists before its promote step has run; the
\* promote step is reached only with every valid row among the first total
\* rows staged; a completed job has been promoted.
C5_PromoteAfterAllBatches ==
    \A j \in {k \in DOMAIN jobs : IsRecompute(k)} :
        /\ Promoted(j) # {} => hist[j].applied
        /\ jobs[j].status = "completed" => hist[j].applied
        /\ \A w \in Workers :
              (pc[w] = "rc_apply" /\ loc[w].job = j)
              => \A i \in 1..loc[w].total : i \notin invalid => <<j, i>> \in staging

\* C5 witness: a job of more than one batch is completed and promoted
C5_Witness ==
    \E j \in DOMAIN jobs :
        /\ jobs[j].status = "completed"
        /\ Cardinality(Promoted(j)) > BATCH_SIZE
        /\ hist[j].attempts = 1

Rank(status) ==
    IF status = "pending" THEN 0 ELSE IF status = "running" THEN 1 ELSE 2

\* C6 (as claimed): a status that is completed, error or cancelled is never
\* changed, and the only change that goes backwards is running to pending.
C6_StatusMonotonic ==
    [][\A j \in DOMAIN jobs :
          jobs'[j].status # jobs[j].status
          => /\ jobs[j].status \notin Terminal
             /\ \/ Rank(jobs'[j].status) > Rank(jobs[j].status)
                \/ (jobs[j].status = "running" /\ jobs'[j].status = "pending")]_vars

\* C7 (as claimed): the persisted progress never exceeds the persisted total.
C7_ProgressWithinTotal ==
    \A j \in DOMAIN jobs : jobs[j].progress <= jobs[j].total

\* a job the worker has marked error, or whose cancellation it has handled
WorkerEnded(j) == jobs[j].status = "error" \/ hist[j].cancelHandled

Processing(w) == InHandler(w) /\ pc[w] # "rc_mark"

\* C1 (as claimed): no job is being processed by two worker instances.
C1_OneWorkerPerJob ==
    \A v, w \in Workers :
        (v # w /\ Processing(v) /\ Processing(w)) => loc[v].job # loc[w].job

\* C9 (as claimed): a backfill_dimension job with valid params is marked
\* error only once its retries are exhausted.
C9_BackfillRetried ==
    \A j \in DOMAIN jobs :
        (/\ jobs[j].type = "backfill_dimension"
         /\ jobs[j].params = "ok"
         /\ jobs[j].status = "error")
        => jobs[j].retry_count >= jobs[j].max_retries

\* C10: from the check at which a fetch_permalink job's status is cancelled
\* on, the job's row is not written and its status stays cancelled; when that
\* check is the one before the run, the scraper is never started.
C10_CancelledPermalinkNotWritten ==
    [][\A j \in DOMAIN jobs :
          hist'[j].seen # "no"
          => /\ jobs'[j].status = "cancelled"
             /\ hist[j].seen # "no" => jobs'[j] = jobs[j]
             /\ hist'[j].seen = "before" => ~hist'[j].started]_vars

\* C10 witness: the run ended, the check after it saw the job cancelled
C10_Witness ==
    \E j \in DOMAIN jobs :
        /\ hist[j].seen = "after"
        /\ hist[j].started
        /\ HandledBy(j) = {}

\* C10 witness of the check before the run
C10_WitnessBefore ==
    \E j \in DOMAIN jobs : hist[j].seen = "before" /\ HandledBy(j) = {}

\* C11 (as claimed): a run_scraper job cancelled while its script ran keeps the
\* status cancelled: the worker never overwrites it with completed or error.
C11_CancelledScraperNotOverwritten ==
    \A j \in DOMAIN jobs :
        (jobs[j].type = "run_scraper" /\ hist[j].cancelledRun)
        => jobs[j].status = "cancelled"

\* the first store call of the handler of a dispatched job, by type: the write
\* of status running, or of status error when the params are invalid
FirstWrites ==
    [recompute_final_scores |-> {"rc_mark"},
     backfill_dimension |-> {"bf_mark", "bf_invalid"},
     fetch_permalink |-> {"fp_mark", "fp_invalid"},
     run_scraper |-> {"rs_mark"}]

\* C12 (as claimed): a poll that finds no pending job of the worker's filter
\* dispatches nothing and sleeps; a poll that dispatches a job dispatches the
\* oldest pending job of the filter, and the handler of its type goes on to
\* mark it running (error when a handler rejects the params).
C12_PollDispatchesOldest ==
    [][\A w \in Workers :
          (pc[w] = "poll" /\ pc'[w] # "poll")
          => LET P == {j \in DOMAIN jobs : /\ jobs[j].status = "pending"
                                           /\ jobs[j].type \in JobTypeFilter(w)}
             IN  /\ jobs' = jobs
                 /\ P = {} => (pc'[w] = "sleep" /\ hist' = hist /\ loc'[w].job = 0)
                 /\ \A j \in DOMAIN jobs :
                        hist'[j].attempts # hist[j].attempts
                        => /\ j \in P
                           /\ \A k \in P : jobs[j].created_at <= jobs[k].created_at
                           /\ loc'[w].job = j
                           /\ pc'[w] \in FirstWrites[jobs[j].type]]_vars

\* C13 (as claimed): an attempt of a job that was reset to pending for a retry
\* starts only after a worker has slept for the poll interval.
C13_RetryAfterPollInterval ==
    \A w \in Workers :
        pc[w] = "rc_mark" => hist[loc[w].job].lastFail # "unwaited"

\* C14 (as claimed): a recompute job whose weight config was not found or held
\* no valid weights is, once the worker has left its handler, marked error
\* with no staged row (stated for the runs in which no store call raised and
\* the job was not cancelled).
C14_NoValidWeightsMarkedError ==
    \A j \in DOMAIN jobs :
        (/\ IsRecompute(j)
         /\ hist[j].config \in {"not_found", "not_dict", "no_numeric", "unknown_only"}
         /\ ~hist[j].faulted
         /\ jobs[j].status # "cancelled"
         /\ HandledBy(j) = {})
        => (jobs[j].status = "error" /\ Staged(j) = {} /\ Promoted(j) = {})

\* C18: every final score the worker's calculate_final_score or the scorer's
\* calculate_final_scores returns lies in [0, 10].
C18_FinalScoreInRange ==
    (call.fn = "final_score" /\ ret.done)
    => /\ FLe(FromInt(0), ret.worker) /\ FLe(ret.worker, FromInt(10))
       /\ FLe(FromInt(0), ret.scorer) /\ FLe(ret.scorer, FromInt(10))

\* C18 witness: high scores with the largest novelty multiplier are cut to 10
C18_Witness ==
    /\ call.fn = "final_score"
    /\ ret.done
    /\ call.novelty = Literal(15, 10)
    /\ DOMAIN call.weights = DimensionSet
    /\ \A d \in DimensionSet : d \in DOMAIN call.scores /\ call.scores[d] = FromInt(10)
    /\ ret.worker = FromInt(10)
    /\ ret.scorer = FromInt(10)

\* the call has weights on exactly two dimensions, 2.0 and 1.0, novelty 1.0,
\* and the post scores s on both of them
TwoWeightsEqualScores(s) ==
    /\ call.fn = "final_score"
    /\ ret.done
    /\ call.novelty = FromInt(1)
    /\ Cardinality(DOMAIN call.weights) = 2
    /\ {call.weights[d] : d \in DOMAIN call.weights} = {FromInt(2), FromInt(1)}
    /\ \A d \in DOMAIN call.weights : d \in DOMAIN call.scores /\ call.scores[d] = s

\* C19 (as claimed): with weights on exactly two dimensions {2.0, 1.0} and
\* novelty 1.0, a post that scores s on both weighted dimensions gets the
\* final score s from the worker's function and from the scorer's.
C19_EqualScoresGiveThatScore ==
    \A s \in {FromInt(1), FromInt(5), FromInt(10)} :
        TwoWeightsEqualScores(s) => (ret.worker = s /\ ret.scorer = s)

\* the novelty call is past the cold-start returns: categories and the
\* frequency map are not empty, the scored count is unknown or at least 30
NoveltyApplies ==
    /\ call.fn = "novelty"
    /\ ret.done
    /\ call.categories # << >>
    /\ DOMAIN call.frequencies # {}
    /\ \A n \in call.total_scored_count : n >= COLD_START_THRESHOLD

\* the thresholds and multipliers calculate_novelty reads from the config
Thresholds(config) ==
    LET t == Get(config, "frequency_thresholds", << >>) IN
    [rare |-> Get(t, "rare", 5), very_common |-> Get(t, "very_common", 100),
     min |-> Get(config, "min_multiplier", Literal(2, 10)),
     max |-> Get(config, "max_multiplier", Literal(15, 10))]

\* C20 (as claimed): past the cold-start returns the multiplier is
\* max_multiplier when the average frequency is <= rare, min_multiplier when
\* it is >= very_common, within [min_multiplier, max_multiplier], and not
\* larger than the multiplier of any smaller average frequency.
C20_NoveltyBoundsAndMonotone ==
    NoveltyApplies =>
        LET t == Thresholds(call.config)
            n == Len(call.categories)
            total == TotalFreq(call.categories, call.frequencies)
        IN  /\ total <= t.rare * n => ret.value = t.max
            /\ total >= t.very_common * n => ret.value = t.min
            /\ FLe(t.min, ret.value) /\ FLe(ret.value, t.max)
            /\ \A f \in Dicts({"crime", "humor"}, {0, 1, 3, 5, 30, 100, 101}) :
                   (DOMAIN f # {} /\ TotalFreq(call.categories, f) <= total)
                   => FLe(ret.value,
                          calculate_novelty(call.categories, f, call.config,
                                            call.total_scored_count))

\* the number of successful runs whose score for dim is at most x
RunsAtMost(dim, x) ==
    Cardinality({k \in DOMAIN call.runs :
                    call.runs[k].ok /\ FLe(call.runs[k].results[1].scores[dim], FromInt(x))})

\* the number of successful runs whose score for dim is at least x
RunsAtLeast(dim, x) ==
    Cardinality({k \in DOMAIN call.runs :
                    call.runs[k].ok /\ FLe(FromInt(x), call.runs[k].results[1].scores[dim])})

Succeeded == {k \in DOMAIN call.runs : call.runs[k].ok}

\* the largest x with at least half of the runs at or above it, and the
\* smallest x with at least half of the runs at or below it
UpperMedian(dim) ==
    CHOOSE x \in 1..10 : /\ 2 * RunsAtLeast(dim, x) >= Cardinality(Succeeded)
                         /\ \A y \in (x + 1)..10 :
                                2 * RunsAtLeast(dim, y) < Cardinality(Succeeded)

LowerMedian(dim) ==
    CHOOSE x \in 1..10 : /\ 2 * RunsAtMost(dim, x) >= Cardinality(Succeeded)
                         /\ \A y \in 1..(x - 1) :
                                2 * RunsAtMost(dim, y) < Cardinality(Succeeded)

EnsembleApplies == call.fn = "score_batch" /\ ret.done /\ call.posts[1].text # ""

\* C16 (first part): each dimension of the aggregated result is the median of
\* that dimension over the successful runs, and the value of the run when
\* exactly one run succeeded
C16_MedianOfSuccessfulRuns ==
    (EnsembleApplies /\ Succeeded # {}) =>
        \A dim \in DimensionSet :
            /\ ret.results[1].scores[dim] =
                   Literal(LowerMedian(dim) + UpperMedian(dim), 2)
            /\ \A k \in Succeeded :
                   Succeeded = {k} =>
                       ret.results[1].scores[dim] = call.runs[k].results[1].scores[dim]

\* C16: the aggregated scores are the medians of the successful runs, and a
\* batch without a successful run gives results with a non-empty error and
\* no final_score
C16_EnsembleAggregation ==
    /\ C16_MedianOfSuccessfulRuns
    /\ (EnsembleApplies /\ Succeeded = {}) =>
           /\ ret.results[1].error # ""
           /\ ret.final[1].final_score = {}

(***************************************************************************)
(* One completion call sequence: _score_batch_single_run on a batch        *)
(* (fn "batch_run"), and score_single_dimension on a list of posts that    *)
(* makes call.batches batches (fn "single_dimension"), whose               *)
(* _score_single_dimension_batch is wrapped by @retry.  ret holds the      *)
(* position of the loops, the messages of the conversation, the number of  *)
(* model requests made for the batch, the exception that left the function *)
(* if any, and whether every request for the batch so far was answered by  *)
(* a response that did not parse.                                          *)
(***************************************************************************)
Responses ==
    {<< >>, <<"L">>, <<"N">>, <<"x">>, <<"fence_json", "L", "fence">>, <<"fence", "L", "fence">>,
     <<"fence_json", "L">>, <<"fence_json", "x", "fence">>, <<"L", "fence">>, <<"fence_json">>}

Prompt == [role |-> "user", content |-> "prompt"]

InitCompletion ==
    /\ WorkerIdle
    /\ call \in [fn : {"batch_run"}, batches : {1}]
                \cup [fn : {"single_dimension"}, batches : 1..MaxDimBatches]
    /\ ret = [done |-> FALSE, outcome |-> "none", raised |-> "none", batch |-> 1,
              tries |-> 1, attempt |-> 0, requests |-> 0, messages |-> <<Prompt>>,
              responses |-> << >>, unparseable |-> TRUE]
    /\ db = EmptyDb

\* an exception leaves the function: _score_batch_single_run has failed;
\* _score_single_dimension_batch is left to its @retry decorator
Raises(r, e) ==
    IF call.fn = "batch_run"
    THEN [r EXCEPT !.done = TRUE, !.outcome = e]
    ELSE [r EXCEPT !.raised = e]

\* the function returns its values; score_single_dimension goes on with the
\* next batch
Returns(r) ==
    IF call.fn = "batch_run" \/ r.batch = call.batches
    THEN [r EXCEPT !.done = TRUE, !.outcome = "returned"]
    ELSE [r EXCEPT !.batch = @ + 1, !.tries = 1, !.attempt = 0, !.requests = 0,
                   !.messages = <<Prompt>>, !.responses = << >>,
                   !.unparseable = TRUE]

\* one pass of the loop "for attempt in range(max_attempts)" and, when the
\* loop is left, the rest of the function: the request raises, or the response
\* is parsed raw and stripped
Request ==
    /\ call.fn \in {"batch_run", "single_dimension"}
    /\ ~ret.done
    /\ ret.raised = "none"
    /\ \/ ret' = Raises([ret EXCEPT !.requests = Min(@ + 1, MaxRequests),
                                    !.unparseable = FALSE], "APIError")
       \/ \E raw_response \in Responses :
            LET r == [ret EXCEPT !.requests = Min(@ + 1, MaxRequests),
                                 !.responses = IF Len(@) < max_attempts
                                               THEN Append(@, raw_response) ELSE @,
                                 !.unparseable = @ /\ ParsedText(raw_response) = {}]
                parsed == ParsedText(raw_response)
            IN  ret' =
                  IF parsed # {}
                  THEN IF parsed = {<<"L">>} THEN Returns(r)
                       ELSE Raises(r, "ValueError: not a list")
                  ELSE IF ret.attempt < max_attempts - 1
                  THEN [r EXCEPT
                          !.attempt = @ + 1,
                          !.messages = @ \o
                              <<[role |-> "assistant", content |-> raw_response],
                                [role |-> "user",
                                 content |-> ParseErrorText(raw_response)]>>]
                  ELSE Raises(r, "ValueError: JSON parse error")
    /\ UNCHANGED <<call, db>>
    /\ UNCHANGED workerVars

\* @retry calls _score_single_dimension_batch again
TenacityRetry ==
    /\ call.fn = "single_dimension"
    /\ ~ret.done
    /\ ret.raised # "none"
    /\ ret.tries < stop_after_attempt
    /\ ret' = [ret EXCEPT !.raised = "none", !.tries = @ + 1, !.attempt = 0,
                          !.messages = <<Prompt>>, !.responses = << >>]
    /\ UNCHANGED <<call, db>>
    /\ UNCHANGED workerVars

\* @retry gives up: RetryError leaves score_single_dimension
TenacityRaise ==
    /\ call.fn = "single_dimension"
    /\ ~ret.done
    /\ ret.raised # "none"
    /\ ret.tries >= stop_after_attempt
    /\ ret' = [ret EXCEPT !.done = TRUE, !.outcome = "RetryError"]
    /\ UNCHANGED <<call, db>>
    /\ UNCHANGED workerVars

NextCompletion == Request \/ TenacityRetry \/ TenacityRaise

SpecCompletion == InitCompletion /\ [][NextCompletion]_vars

\* the batches of score_posts whose posts have all been given a result
C15_Witness ==
    /\ call.fn = "pipeline"
    /\ ret.done
    /\ Len(ret.batches) = 2
    /\ ret.batches[1].failed
    /\ ~ret.batches[2].failed
    /\ ret.results[Len(ret.results)].error = ""

\* C15: score_posts gives one result per post in the order of the posts; the
\* posts of a batch that failed, and only they, get a non-empty error, and the
\* results of every batch are what _score_batch returned for that batch alone
C15_BatchFailureIsolated ==
    call.fn = "pipeline" =>
        /\ Len(ret.results) = Min(ret.i, Len(call.posts))
        /\ ret.done => Len(ret.results) = Len(call.posts)
        /\ \A k \in DOMAIN ret.results : ret.results[k].post_id = call.posts[k].id
        /\ \A b \in DOMAIN ret.batches :
              /\ ret.batches[b].failed =>
                    \A k \in ret.batches[b].first..ret.batches[b].last :
                        ret.results[k].error # ""
              /\ \A k \in ret.batches[b].first..ret.batches[b].last :
                    [ret.results[k] EXCEPT !.final_score = {}] =
                        ret.batches[b].returned[k - ret.batches[b].first + 1]

\* the results with a non-empty error
WithError == {k \in DOMAIN ret.results : ret.results[k].error # ""}

\* how many results without an error list category c
Listing(c) ==
    Cardinality({k \in DOMAIN ret.results \ WithError :
                    \E i \in DOMAIN ret.results[k].categories :
                        ret.results[k].categories[i] = c})

\* save_scores has written the row of a result next to a result with an error
C17_Witness ==
    /\ call.fn = "pipeline"
    /\ ret.saves > 0
    /\ WithError # {}
    /\ db.llm_scores # {}
    /\ db.post_scores # {}
    /\ \E c \in DOMAIN db.topic_frequencies : db.topic_frequencies[c] > 0

\* C17: a result with a non-empty error has no row in llm_scores and none in
\* post_scores, has no final_score, and adds nothing to a topic frequency
C17_ErrorResultsNeverPersisted ==
    call.fn = "pipeline" =>
        /\ \A k \in WithError :
              /\ ret.results[k].final_score = {}
              /\ \A r \in db.llm_scores : r.post_id # ret.results[k].post_id
              /\ \A r \in db.post_scores : r.post_id # ret.results[k].post_id
        /\ \A c \in DOMAIN db.topic_frequencies :
              db.topic_frequencies[c] <= ret.saves * Listing(c)

\* C27: with a single worker, at most one job has status running
C27_AtMostOneRunning ==
    Cardinality({j \in DOMAIN jobs : jobs[j].status = "running"}) <= 1

\* the status changes of the job state machine
Transitions ==
    {<<"pending", "running">>, <<"running", "completed">>,
     <<"running", "error">>, <<"running", "pending">>}

\* C28: every change of a job's status other than the external setting of
\* cancelled is pending to running, running to completed, running to error
\* or running to pending
C28_OnlyStateMachineTransitions ==
    [][\A j \in DOMAIN jobs :
          (jobs'[j].status # jobs[j].status /\ jobs'[j].status # "cancelled")
              => <<jobs[j].status, jobs'[j].status>> \in Transitions]_vars

\* the worker holding job j has read the cancelled status at a check
Observed(w) == pc[w] \in {"rc_cancel_cleanup", "rc_cancel_update"}

\* C29: once a running recompute job is cancelled with more than
\* CANCEL_CHECK_INTERVAL batches left, its promote never runs, at most
\* CANCEL_CHECK_INTERVAL more batches are staged (the next check sees the
\* cancellation), a batch in progress at the cancellation is staged before the
\* cancellation is seen, and after the worker has handled the cancellation no
\* worker holds the job
C29_CancelSeenWithinInterval ==
    \A j \in DOMAIN jobs :
        \A c \in hist[j].cancelAt :
            /\ ~hist[j].applied
            /\ hist[j].cancelHandled => HandledBy(j) = {}
            /\ \A w \in HandledBy(j) :
                  /\ BatchesStaged(w) <= c.staged + CANCEL_CHECK_INTERVAL
                  /\ Observed(w) /\ c.in_progress => BatchesStaged(w) > c.staged

\* C30: for every max_retries >= 0, retry_count never exceeds max_retries, and
\* a job marked error after its retries were exhausted has been dispatched at
\* most max_retries + 1 times
C30_RetriesBounded ==
    \A j \in DOMAIN jobs :
        /\ jobs[j].retry_count <= jobs[j].max_retries
        /\ (jobs[j].status = "error" /\ jobs[j].error_message = "exhausted")
              => hist[j].attempts <= jobs[j].max_retries + 1

\* C31: every error_message written to a job has at most MESSAGE_LIMIT
\* characters
C31_ErrorMessageTruncated ==
    (call.fn = "error_message" /\ ret.done) => ret.length <= MESSAGE_LIMIT

\* where a handler stands before its write of status running
BeforeMark == {"rc_mark", "bf_mark", "bf_invalid", "fp_mark", "fp_invalid", "rs_mark"}

\* C32: when a handler that has marked its job running returns or raises to
\* the poll loop, the job's status is not running
C32_FailureReflectedInStatus ==
    [][\A w \in Workers :
          (/\ loc[w].job # 0
           /\ loc'[w].job = 0
           /\ pc[w] \notin BeforeMark)
          => jobs'[loc[w].job].status # "running"]_vars

\* the staging rows of job j for every valid row of llm_scores
ValidRows(j) == {<<j, i>> : i \in (1..nScores) \ invalid}

RunsListing(c) ==
    {k \in Succeeded : \E i \in DOMAIN call.runs[k].results[1].categories :
                          call.runs[k].results[1].categories[i] = c}

\* category c comes before category d: more runs vote for it, or as many and
\* its name is smaller
Outvotes(c, d) ==
    \/ Cardinality(RunsListing(c)) > Cardinality(RunsListing(d))
    \/ /\ Cardinality(RunsListing(c)) = Cardinality(RunsListing(d))
       /\ CategoryIndex(c) < CategoryIndex(d)

\* C34: the categories of an aggregated result are at most 3 distinct
\* categories of the vocabulary, each voted for by a successful run, in the
\* order of the votes of the runs (then of the names), and no category left
\* out comes before one that is kept
C34_CategoriesByMajorityVote ==
    (EnsembleApplies /\ Succeeded # {}) =>
        LET categories == ret.results[1].categories
            kept == {categories[i] : i \in DOMAIN categories}
        IN  /\ Len(categories) <= 3
            /\ \A c \in kept : InVocabulary(c) /\ RunsListing(c) # {}
            /\ \A i \in DOMAIN categories : \A j \in DOMAIN categories :
                  i < j => Outvotes(categories[i], categories[j])
            /\ \A i \in DOMAIN TOPIC_CATEGORIES :
                  TOPIC_CATEGORIES[i] \notin kept
                  => \A c \in kept : ~Outvotes(TOPIC_CATEGORIES[i], c)

\* between 1 and 3 categories, all of the vocabulary
OneToThreeTopics(categories) ==
    /\ Len(categories) \in 1..3
    /\ \A i \in DOMAIN categories : InVocabulary(categories[i])

\* C35: a result without an error, of a single run or of the aggregation
\* of the ensemble, has between 1 and 3 categories of the vocabulary
C35_OneToThreeCategories ==
    /\ (call.fn = "validate" /\ ret.done /\ ~ret.raised)
          => OneToThreeTopics(ret.categories)
    /\ (EnsembleApplies /\ ret.results[1].error = "")
          => OneToThreeTopics(ret.results[1].categories)

\* C36: for the same scores, weight map and novelty multiplier the worker's
\* calculate_final_score and the scorer's calculate_final_scores give the same
\* final score
C36_SameFinalScore ==
    (call.fn = "final_score" /\ ret.done) => ret.worker = ret.scorer

\* C37: every pending job is eventually completed, error or cancelled (a job
\* is completed or error only after it was dispatched)
C37_NoJobBlocksTheQueue ==
    \A j \in {1, 2} : (jobs[j].status = "pending") ~> (jobs[j].status \in Terminal)

\* save_scores was given results with and without an error and its upsert of
\* llm_scores failed
C26_WitnessFailed ==
    /\ call.fn = "pipeline"
    /\ ret.saves > 0
    /\ WithError # {}
    /\ ret.stats.errors > 0

\* save_scores was given results with and without an error and wrote the
\* ranking rows of those without
C26_Witness ==
    /\ call.fn = "pipeline"
    /\ ret.saves > 0
    /\ WithError # {}
    /\ ret.stats.saved > 0
    /\ db.post_scores # {}

\* C26: at every return of save_scores, saved + skipped + errors is the number
\* of results, skipped is the number of results with an error, and every row
\* the call wrote to post_scores belongs to a result without an error and is
\* written only when those results were counted as saved
C26_SaveCounts ==
    [][(call.fn = "pipeline" /\ ret'.saves > ret.saves) =>
          /\ ret'.stats.saved + ret'.stats.skipped + ret'.stats.errors
                 = Len(ret.results)
          /\ ret'.stats.skipped = Cardinality(WithError)
          /\ \A r \in db'.post_scores \ db.post_scores :
                /\ ret'.stats.saved > 0
                /\ \E k \in DOMAIN ret.results \ WithError :
                      ret.results[k].post_id = r.post_id]_vars

NumberInRange(dim) ==
    /\ call.item.scores.t = "object"
    /\ dim \in DOMAIN call.item.scores.o
    /\ \/ /\ call.item.scores.o[dim].t = "int"
          /\ call.item.scores.o[dim].i \in 1..10
       \/ /\ call.item.scores.o[dim].t = "float"
          /\ FLe(FromInt(1), call.item.scores.o[dim].f)
          /\ FLe(call.item.scores.o[dim].f, FromInt(10))

\* C22: validation never raises; a number in [1, 10] is kept, every other
\* value and a missing one become 5.0, and the categories kept are those of
\* the vocabulary, in their order
C22_ScoreValidation ==
    (call.fn = "validate" /\ ret.done) =>
        /\ ~ret.raised
        /\ \A dim \in DimensionSet :
              IF NumberInRange(dim)
              THEN ret.scores[dim] = ToFloat(call.item.scores.o[dim])
              ELSE ret.scores[dim] = FromInt(5)
        /\ ret.categories =
              SelectSeq(call.item.categories,
                        LAMBDA c : c \in {"crime", "drama", "humor", "local_news",
                                          "lost_pet", "noise", "suspicious", "wildlife"})

\* the text is a JSON value, bare or between code-fence markers
IsJson(text) ==
    \E j \in {"L", "N"} :
        \/ text = <<j>>
        \/ \E open \in {"fence_json", "fence"} :
              text = <<open, j>> \/ text = <<open, j, "fence">>

\* the correction prompts sent so far
Corrections == {k \in DOMAIN ret.messages : k > 1 /\ ret.messages[k].role = "user"}

\* a fenced response was parsed after a response that was not JSON
C23_Witness ==
    /\ call.fn = "batch_run"
    /\ ret.responses = <<<<"x">>, <<"fence_json", "L", "fence">>>>
    /\ ret.done
    /\ ret.outcome = "returned"
    /\ ret.requests = 2

\* three responses that do not parse: the call has failed
C23_WitnessExhausted ==
    /\ call.fn = "batch_run"
    /\ Len(ret.responses) = 3
    /\ ret.outcome = "ValueError: JSON parse error"
    /\ Cardinality(Corrections) = 2

\* C23: one completion call sequence makes at most 3 model requests; a
\* correction prompt with the parse error follows exactly the responses that
\* parse neither raw nor without their fence markers; the sequence ends at the
\* first response that parses, and fails after the third response that does not
C23_CompletionSequence ==
    call.fn = "batch_run" =>
        /\ ret.requests <= 3
        /\ Len(ret.responses) <= ret.requests
        /\ \A k \in 1..(Len(ret.responses) - 1) : ~IsJson(ret.responses[k])
        /\ \A k \in DOMAIN ret.responses :
              IF IsJson(ret.responses[k])
              THEN /\ ret.done
                   /\ ret.outcome \in {"returned", "ValueError: not a list"}
                   /\ Cardinality(Corrections) = k - 1
              ELSE IF k = 3
              THEN /\ ret.done
                   /\ ret.outcome = "ValueError: JSON parse error"
                   /\ Cardinality(Corrections) = 2
              ELSE /\ ret.messages[2 * k].role = "assistant"
                   /\ ret.messages[2 * k].content = ret.responses[k]
                   /\ ret.messages[2 * k + 1].role = "user"
                   /\ ret.messages[2 * k + 1].content.error
                         \in {"JSONDecodeError", "Invalid JSON"}
        /\ Len(ret.messages) <= 1 + 2 * Len(ret.responses)
        /\ ret.done => ret.outcome # "none"

\* C24: when every model response for a batch is unparseable,
\* score_single_dimension raises instead of returning values, after at most 3
\* model requests for the batch
C24_SingleDimensionRaises ==
    (call.fn = "single_dimension" /\ ret.unparseable) =>
        /\ ret.requests <= 3
        /\ ret.outcome # "returned"
        /\ ret.done => ret.outcome = "RetryError"

\* the staging rows a step inserts or deletes
StagingTouched == (staging' \ staging) \cup (staging \ staging')

\* the staging rows of job 1 have been deleted by its cleanup while job 2 has
\* rows staged and is running
C25_Witness ==
    /\ hist[1].cleanup = "deleted"
    /\ jobs[2].status = "running"
    /\ \E r \in staging : r[1] = 2
    /\ \A r \in staging : r[1] # 1

\* C25: a step that changes the staging table is a step of a worker that is
\* processing a job, and every row it inserts or deletes has that job's id
C25_StagingOwnedByJob ==
    [][staging' # staging =>
          \E w \in Workers :
              /\ pc'[w] # pc[w] \/ loc'[w] # loc[w]
              /\ loc[w].job # 0
              /\ \A r \in StagingTouched : r[1] = loc[w].job]_vars

\* C38: a save_scores call whose upsert of llm_scores failed (its rows are
\* counted as errors) leaves every topic-frequency counter as it was
C38_FailedUpsertCountsNoTopics ==
    [][(ret'.saves = ret.saves + 1 /\ ret'.stats.errors > 0)
          => db'.topic_frequencies = db.topic_frequencies]_vars

\* C39: when both pipelines have raised the same category's counter by the
\* read-then-upsert fallback, the counter is its initial value plus both
\* increments
C39_NoIncrementLost ==
    (/\ call.fn = "update_topic_frequencies"
     /\ \A p \in Pipelines : ret.at[p] = "done" /\ ret.path[p] = "fallback")
        => db.topic_frequencies["crime"]
               = call.initial + call.counts[1] + call.counts[2]

\* C40: a recompute job with status error has written no row of the live
\* ranking table
C40_ErrorMeansNotPromoted ==
    \A j \in DOMAIN jobs :
        (IsRecompute(j) /\ jobs[j].status = "error") => Promoted(j) = {}

====
